---- MODULE Spec2Model ----
(***************************************************************************)
(* Two-tier cache (CacheManager) and sliding-window rate limiter of the    *)
(* sporty-koko data layer, as state machines.                              *)
(*                                                                         *)
(* Strings are sequences of tokens, so that key concatenation and          *)
(* String.startsWith are computed and not assumed.  Every cache method is  *)
(* one action: the methods contain no await, so each runs to completion on *)
(* the event loop.                                                         *)
(***************************************************************************)
EXTENDS Integers, Sequences, FiniteSets, TLC

VARIABLES
    now,               \* Date.now()
    maxMemoryEntries,  \* CacheManager.maxMemoryEntries (constructor option)
    storageCache,      \* TRUE iff CacheManager.storageCache is not null
    memoryCache,       \* tier 1: the Map, as its entries in insertion order
    localStorage,      \* tier 2: window.localStorage, key -> stored string
    metrics,           \* CacheManager.metrics
    calls,             \* the getOrSet calls in flight, per caller
    requestCache,      \* rate limiter: timestamp -> requests recorded at it
    rateLimitInfo,     \* rate limiter: the module-level RateLimitInfo
    inflight,          \* upstream requests issued and not yet answered
    ret,               \* what the last completed call returned and did
    written            \* per logical key: the last set whose entry was not
                       \* since deleted, cleared, evicted, touched or rewritten

vars == <<now, maxMemoryEntries, storageCache, memoryCache, localStorage,
          metrics, calls, requestCache, rateLimitInfo, inflight, ret, written>>

config  == <<maxMemoryEntries, storageCache>>
cache   == <<memoryCache, localStorage, metrics, calls, written>>
limiter == <<requestCache, rateLimitInfo, inflight>>

----------------------------------------------------------------------------
(* Bounds of the model.  The counters of the metrics are unbounded in the  *)
(* program; a specification takes a get or a set only below its bound, and *)
(* resetMetrics lets a behaviour go on.                                    *)

MaxClock == 2      \* the clock stops advancing here
MaxSets  == 2      \* Spec: bound of metrics.sets
MaxGets  == 2      \* Spec: bound of metrics.hits + metrics.misses
Burst    == 1      \* the other specifications: bound of both

----------------------------------------------------------------------------
(* JavaScript values. *)

Null == "null"

\* an optional argument: None when undefined, Some(x) when given
None    == <<>>
Some(x) == <<x>>

Min(a, b) == IF a < b THEN a ELSE b

----------------------------------------------------------------------------
(* Strings and cache keys. *)

storagePrefix == <<"sportykoko_cache_">>

PREDICTIONS == <<"predictions_">>
MATCHES     == <<"matches_">>
COMPETITIONS == <<"competitions">>

\* String.prototype.startsWith
StartsWith(s, p) == Len(p) <= Len(s) /\ SubSeq(s, 1, Len(p)) = p

----------------------------------------------------------------------------
(* Map<string, CacheEntry>: a sequence of [key, entry] in insertion order. *)

MapKeys(m) == {m[i].key : i \in 1..Len(m)}

MapHas(m, k) == k \in MapKeys(m)

MapIndex(m, k) == CHOOSE i \in 1..Len(m) : m[i].key = k

MapGet(m, k) == m[MapIndex(m, k)].entry

\* a set that keeps the entry a key already has
MapSetKeep(m, k, e) ==
    IF k \in {m[i].key : i \in 1..Len(m)} THEN m ELSE Append(m, [key |-> k, entry |-> e])

\* Map.set: an existing key keeps its place, a new key goes last
MapSet(m, k, e) ==
    IF MapHas(m, k)
    THEN [m EXCEPT ![MapIndex(m, k)] = [key |-> k, entry |-> e]]
    ELSE Append(m, [key |-> k, entry |-> e])

\* Map.delete of every key in ks
MapDeleteAll(m, ks) == SelectSeq(m, LAMBDA x : x.key \notin ks)

----------------------------------------------------------------------------
(* The persisted entry format: JSON.stringify / JSON.parse of a CacheEntry. *)
(* A stored string is a token sequence; anything that does not have the    *)
(* shape written by Stringify makes Parse throw.                           *)

Stringify(entry) ==
    <<"{", "data", entry.data, "timestamp", entry.timestamp, "ttl", entry.ttl, "}">>

CanParse(s) ==
    /\ Len(s) = 8
    /\ s[1] = "{" /\ s[2] = "data" /\ s[4] = "timestamp" /\ s[6] = "ttl" /\ s[8] = "}"

Parse(s) == [data |-> s[3], timestamp |-> s[5], ttl |-> s[7]]

----------------------------------------------------------------------------
(* Storage: a function from the keys present to their strings. *)

StorageRemoveAll(st, ks) == [k \in (DOMAIN st) \ ks |-> st[k]]

StorageSetItem(st, k, s) == [x \in (DOMAIN st) \cup {k} |-> IF x = k THEN s ELSE st[x]]

----------------------------------------------------------------------------
(* CacheManager private helpers. *)

isExpired(entry) == now - entry.timestamp > entry.ttl

\* a sort that puts the later of two equal timestamps first
InsertBeforeEqual(sorted, x) ==
    LET n == Cardinality({i \in 1..Len(sorted) :
                             sorted[i].entry.timestamp < x.entry.timestamp})
    IN  SubSeq(sorted, 1, n) \o <<x>> \o SubSeq(sorted, n + 1, Len(sorted))

\* Array.prototype.sort((a, b) => a[1].timestamp - b[1].timestamp): stable
InsertByTimestamp(sorted, x) ==
    LET n == Cardinality({i \in 1..Len(sorted) :
                             sorted[i].entry.timestamp <= x.entry.timestamp})
    IN  SubSeq(sorted, 1, n) \o <<x>> \o SubSeq(sorted, n + 1, Len(sorted))

RECURSIVE SortByTimestamp(_)
SortByTimestamp(s) ==
    IF s = <<>> THEN <<>>
    ELSE InsertByTimestamp(SortByTimestamp(SubSeq(s, 1, Len(s) - 1)), s[Len(s)])

\* Math.floor(maxMemoryEntries * 0.2)
EvictCount(max) == max \div 5

\* the keys evictOldestEntries removes from map m
toEvict(m) ==
    LET sorted == SortByTimestamp(m)
        n      == Min(EvictCount(maxMemoryEntries), Len(sorted))
    IN  {sorted[i].key : i \in 1..n}

evictOldestEntries(m) == MapDeleteAll(m, toEvict(m))

\* the stored strings of prefixed keys that clearStorageSpace treats as expired
ExpiredStorageKeys(st) ==
    {k \in DOMAIN st :
        /\ StartsWith(k, storagePrefix)
        /\ \/ ~CanParse(st[k])
           \/ isExpired(Parse(st[k]))}

\* Math.floor(entries.length * 0.2)
ReclaimCountFifth(n) == n \div 5

\* Math.floor(entries.length * 0.1)
ReclaimCount(n) == n \div 10

\* clearStorageSpace: the storages it can leave.  The order of equal
\* timestamps in the second pass is the order of Storage.key(i), which the
\* platform chooses: every choice of the oldest records is an outcome.
clearStorageSpace(st) ==
    LET expiredKeys == ExpiredStorageKeys(st)
        entries     == {k \in DOMAIN st : StartsWith(k, storagePrefix)}
        n           == ReclaimCount(Cardinality(entries))
    IN  IF expiredKeys # {}
        THEN {StorageRemoveAll(st, expiredKeys)}
        ELSE {StorageRemoveAll(st, R) :
                R \in {S \in SUBSET entries :
                         /\ Cardinality(S) = n
                         /\ \A a \in S, b \in entries \ S :
                               Parse(st[a]).timestamp <= Parse(st[b]).timestamp}}

----------------------------------------------------------------------------
(* CacheOptions, with the defaults that set() destructures. *)

DEFAULT_TTL == 60 * 60 * 1000

Options(ttl, persistToStorage, storageKey) ==
    [ttl |-> ttl, persistToStorage |-> persistToStorage, storageKey |-> storageKey]

OptTtl(options) == IF options.ttl = None THEN DEFAULT_TTL ELSE options.ttl[1]

OptPersist(options) ==
    IF options.persistToStorage = None THEN TRUE ELSE options.persistToStorage[1]

\* a number passed as the options argument, set(key, data, n): the
\* destructuring reads ttl, persistToStorage and storageKey of a Number,
\* which has none of them
NumberAsOptions(n) ==
    [ttl |-> None, persistToStorage |-> None, storageKey |-> None, number |-> n]

\* storageKey || key: an undefined and an empty storageKey are both falsy
OptKey(options, key) ==
    IF options.storageKey = <<>> THEN key ELSE options.storageKey

----------------------------------------------------------------------------
(* What setItem does in one call of set.                                   *)
(*   "ok"       the write succeeds                                         *)
(*   "error"    the write throws something other than QuotaExceededError   *)
(*   "quota"    the write throws QuotaExceededError, the retry succeeds    *)
(*   "quota2"   the write and the retry both throw                         *)
WriteOutcomes == {"ok", "error", "quota", "quota2"}

NoWrite == [key |-> <<>>]

\* the bookkeeping of `written` shared by the operations that remove keys
Forget(w, fullKeys) ==
    [k \in DOMAIN w |-> IF storagePrefix \o k \in fullKeys THEN NoWrite ELSE w[k]]

\* the guards that bound the counters
GetsBelow(n) == metrics.hits + metrics.misses < n
SetsBelow(n) == metrics.sets < n

----------------------------------------------------------------------------
(* CacheManager.get *)

\* the tier-2 string get() reads for fullKey; the empty string is falsy
StoredFor(fullKey) ==
    IF storageCache /\ fullKey \in DOMAIN localStorage
    THEN localStorage[fullKey] ELSE <<>>

MemoryHit(fullKey) ==
    MapHas(memoryCache, fullKey) /\ ~isExpired(MapGet(memoryCache, fullKey))

StorageHit(fullKey) ==
    LET stored == StoredFor(fullKey)
    IN  stored # <<>> /\ CanParse(stored) /\ ~isExpired(Parse(stored))

\* whether get(key) counts a hit, and the value it returns
GetHit(key) ==
    LET fullKey == storagePrefix \o key
    IN  MemoryHit(fullKey) \/ StorageHit(fullKey)

GetValue(key) ==
    LET fullKey == storagePrefix \o key
    IN  IF MemoryHit(fullKey) THEN MapGet(memoryCache, fullKey).data
        ELSE IF StorageHit(fullKey) THEN Parse(StoredFor(fullKey)).data
        ELSE Null

\* the entry get() puts into tier 1 from a stored string
RehydratedRestamped(stored) == [Parse(stored) EXCEPT !.timestamp = now]

Rehydrated(stored) == Parse(stored)

\* the effect of get(key) on the two tiers and the metrics
GetBody(key) ==
    LET fullKey == storagePrefix \o key
        stored  == StoredFor(fullKey)
    IN  IF MemoryHit(fullKey)
        THEN /\ metrics' = [metrics EXCEPT !.hits = @ + 1]
             /\ UNCHANGED <<memoryCache, localStorage>>
        ELSE IF StorageHit(fullKey)
        THEN /\ memoryCache' = MapSet(memoryCache, fullKey, Rehydrated(stored))
             /\ metrics' = [metrics EXCEPT !.hits = @ + 1]
             /\ UNCHANGED localStorage
        ELSE /\ localStorage' = IF stored # <<>> /\ CanParse(stored)
                                THEN StorageRemoveAll(localStorage, {fullKey})
                                ELSE localStorage
             /\ metrics' = [metrics EXCEPT !.misses = @ + 1]
             /\ UNCHANGED memoryCache

Get(key) ==
    /\ GetBody(key)
    /\ ret' = [op |-> "get", key |-> key, hit |-> GetHit(key), value |-> GetValue(key)]
    /\ UNCHANGED <<now, config, limiter, calls, written>>

----------------------------------------------------------------------------
(* CacheManager.set *)

SetFullKey(key, options) == storagePrefix \o OptKey(options, key)

SetEntry(data, options) == [data |-> data, timestamp |-> now, ttl |-> OptTtl(options)]

\* tier 1 after memoryCache.set, before the memory limit is enforced
Inserted(key, data, options) ==
    MapSet(memoryCache, SetFullKey(key, options), SetEntry(data, options))

\* an eviction pass that already runs when the map is just full
SetEvictsAtCapacity(key, data, options) ==
    IF Len(Inserted(key, data, options)) >= maxMemoryEntries
    THEN toEvict(Inserted(key, data, options))
    ELSE {}

\* the keys the eviction pass of this set removes
SetEvicts(key, data, options) ==
    IF Len(Inserted(key, data, options)) > maxMemoryEntries
    THEN toEvict(Inserted(key, data, options))
    ELSE {}

\* what happens at tier 2: "none" when the set does not persist
SetResult(options, outcome) ==
    IF OptPersist(options) /\ storageCache THEN outcome ELSE "none"

SetBody(key, data, options, outcome) ==
    LET fullKey == SetFullKey(key, options)
        entry   == SetEntry(data, options)
        evicted == SetEvicts(key, data, options)
        result  == SetResult(options, outcome)
    IN  /\ memoryCache' = MapDeleteAll(Inserted(key, data, options), evicted)
        /\ metrics' = [metrics EXCEPT !.sets = @ + 1,
                                      !.evictions = @ + Cardinality(evicted)]
        /\ \E reclaimed \in clearStorageSpace(localStorage) :
              localStorage' =
                 CASE result = "ok"     -> StorageSetItem(localStorage, fullKey, Stringify(entry))
                   [] result = "quota"  -> StorageSetItem(reclaimed, fullKey, Stringify(entry))
                   [] result = "quota2" -> reclaimed
                   [] OTHER             -> localStorage
        /\ written' =
              [k \in DOMAIN written |->
                  IF storagePrefix \o k \in evicted THEN NoWrite
                  ELSE IF storagePrefix \o k # fullKey THEN written[k]
                  ELSE IF options.persistToStorage = None /\ options.storageKey = None
                       THEN [key |-> k, data |-> data, at |-> now,
                             ttl |-> OptTtl(options), options |-> options]
                       ELSE NoWrite]

\* the number of setItem calls and of clearStorageSpace calls of one set
WriteAttempts(result) ==
    CASE result = "none" -> 0
      [] result \in {"ok", "error"} -> 1
      [] OTHER -> 2

ReclaimPasses(result) == IF result \in {"quota", "quota2"} THEN 1 ELSE 0

SetReport(op, key, data, options, outcome) ==
    [op       |-> op, key |-> key, value |-> data,
     evicted  |-> SetEvicts(key, data, options),
     tier2    |-> SetResult(options, outcome),
     writes   |-> WriteAttempts(SetResult(options, outcome)),
     reclaims |-> ReclaimPasses(SetResult(options, outcome))]

Set(key, data, options, outcome) ==
    /\ SetBody(key, data, options, outcome)
    /\ ret' = SetReport("set", key, data, options, outcome)
    /\ UNCHANGED <<now, config, limiter, calls>>

----------------------------------------------------------------------------
(* CacheManager.delete, clear and clearByPrefix: what each leaves of a     *)
(* tier-1 map m and of a storage st, and the actions.                      *)

DeleteMemory(m, key) == MapDeleteAll(m, {storagePrefix \o key})

DeleteStorage(st, key) ==
    IF storageCache /\ storagePrefix \o key \in DOMAIN st
    THEN StorageRemoveAll(st, {storagePrefix \o key})
    ELSE st

DeleteReturnsMemoryOnly(m, st, key) == MapHas(m, storagePrefix \o key)

\* memoryDeleted || storageDeleted
DeleteReturns(m, st, key) ==
    \/ MapHas(m, storagePrefix \o key)
    \/ storageCache /\ storagePrefix \o key \in DOMAIN st

\* the tier-2 keys the removal loop collects for a full prefix
StorageKeysWith(st, fullPrefix) ==
    IF storageCache
    THEN {k \in DOMAIN st : StartsWith(k, fullPrefix)}
    ELSE {}

\* a clear that empties the whole storage
ClearStorageAll(st) == [k \in {} |-> <<>>]

ClearStorage(st) == StorageRemoveAll(st, StorageKeysWith(st, storagePrefix))

ClearPrefixMemory(m, prefix) ==
    MapDeleteAll(m, {k \in MapKeys(m) : StartsWith(k, storagePrefix \o prefix)})

ClearPrefixStorageBare(st, prefix) ==
    StorageRemoveAll(st, StorageKeysWith(st, prefix))

ClearPrefixStorage(st, prefix) ==
    StorageRemoveAll(st, StorageKeysWith(st, storagePrefix \o prefix))

Delete(key) ==
    /\ memoryCache' = DeleteMemory(memoryCache, key)
    /\ localStorage' = DeleteStorage(localStorage, key)
    /\ ret' = [op |-> "delete", key |-> key,
               value |-> DeleteReturns(memoryCache, localStorage, key)]
    /\ written' = Forget(written, {storagePrefix \o key})
    /\ UNCHANGED <<now, config, limiter, metrics, calls>>

Clear ==
    /\ memoryCache' = <<>>
    /\ localStorage' = ClearStorage(localStorage)
    /\ ret' = [op |-> "clear",
               removed |-> MapKeys(memoryCache)
                              \cup StorageKeysWith(localStorage, storagePrefix)]
    /\ written' = [k \in DOMAIN written |-> NoWrite]
    /\ UNCHANGED <<now, config, limiter, metrics, calls>>

ClearByPrefix(prefix) ==
    /\ memoryCache' = ClearPrefixMemory(memoryCache, prefix)
    /\ localStorage' = ClearPrefixStorage(localStorage, prefix)
    /\ ret' = [op |-> "clearByPrefix", key |-> prefix,
               removed |-> {k \in MapKeys(memoryCache) :
                              StartsWith(k, storagePrefix \o prefix)}
                           \cup StorageKeysWith(localStorage, storagePrefix \o prefix)]
    /\ written' = [k \in DOMAIN written |->
                      IF StartsWith(k, prefix) THEN NoWrite ELSE written[k]]
    /\ UNCHANGED <<now, config, limiter, metrics, calls>>

----------------------------------------------------------------------------
(* CacheInvalidationService.invalidateCache.  The prefixes and the keys    *)
(* are handled one after the other, each by one call of the store.         *)

InvalidationOptions(prefixes, keys, expiredOnly, forceRefresh) ==
    [invalidateByPrefix |-> prefixes, invalidateByKeys |-> keys,
     invalidateExpiredOnly |-> expiredOnly, forceRefresh |-> forceRefresh]

RECURSIVE ClearPrefixesMemory(_, _)
ClearPrefixesMemory(m, prefixes) ==
    IF prefixes = <<>> THEN m
    ELSE ClearPrefixesMemory(ClearPrefixMemory(m, Head(prefixes)), Tail(prefixes))

\* a loop that stops after the first prefix
ClearPrefixesStorageFirst(st, prefixes) ==
    IF prefixes = <<>> THEN st ELSE ClearPrefixStorage(st, Head(prefixes))

RECURSIVE ClearPrefixesStorage(_, _)
ClearPrefixesStorage(st, prefixes) ==
    IF prefixes = <<>> THEN st
    ELSE ClearPrefixesStorage(ClearPrefixStorage(st, Head(prefixes)), Tail(prefixes))

RECURSIVE DeleteKeysMemory(_, _)
DeleteKeysMemory(m, keys) ==
    IF keys = <<>> THEN m
    ELSE DeleteKeysMemory(DeleteMemory(m, Head(keys)), Tail(keys))

RECURSIVE DeleteKeysStorage(_, _)
DeleteKeysStorage(st, keys) ==
    IF keys = <<>> THEN st
    ELSE DeleteKeysStorage(DeleteStorage(st, Head(keys)), Tail(keys))

\* cleanExpiredEntries only logs
cleanExpiredEntries(m) == m

InvalidateCache(options) ==
    /\ IF options.forceRefresh
       THEN /\ memoryCache' = <<>>
            /\ localStorage' = ClearStorage(localStorage)
       ELSE /\ memoryCache' =
                 LET m == DeleteKeysMemory(
                             ClearPrefixesMemory(memoryCache, options.invalidateByPrefix),
                             options.invalidateByKeys)
                 IN  IF options.invalidateExpiredOnly THEN cleanExpiredEntries(m) ELSE m
            /\ localStorage' =
                 DeleteKeysStorage(
                    ClearPrefixesStorage(localStorage, options.invalidateByPrefix),
                    options.invalidateByKeys)
    /\ ret' = [op |-> "invalidateCache", options |-> options]
    /\ written' =
          [k \in DOMAIN written |->
              IF \/ options.forceRefresh
                 \/ \E i \in 1..Len(options.invalidateByPrefix) :
                       StartsWith(k, options.invalidateByPrefix[i])
                 \/ \E i \in 1..Len(options.invalidateByKeys) :
                       options.invalidateByKeys[i] = k
              THEN NoWrite ELSE written[k]]
    /\ UNCHANGED <<now, config, limiter, metrics, calls>>

----------------------------------------------------------------------------
(* CacheErrorRecovery.recoverFromError.  An error message is a sequence of *)
(* tokens; includes looks for one of them.                                 *)

\* String.prototype.includes
Includes(message, word) == \E i \in 1..Len(message) : message[i] = word

\* a network test that forgets 'fetch'
RecoveryBranchNetworkOnly(message) ==
    IF Includes(message, "QuotaExceededError") THEN "forceRefresh"
    ELSE IF Includes(message, "JSON") THEN "corrupted"
    ELSE IF Includes(message, "Network") THEN "none"
    ELSE "corrupted"

\* the branch the if statements take, in their order
RecoveryBranch(message) ==
    IF Includes(message, "QuotaExceededError") THEN "forceRefresh"
    ELSE IF Includes(message, "JSON") THEN "corrupted"
    ELSE IF Includes(message, "Network") \/ Includes(message, "fetch") THEN "none"
    ELSE "corrupted"

\* clearCorruptedEntries: clearByPrefix of predictions_, then of matches_
ClearCorruptedMemory(m) == ClearPrefixMemory(ClearPrefixMemory(m, PREDICTIONS), MATCHES)

ClearCorruptedStorage(st) ==
    ClearPrefixStorage(ClearPrefixStorage(st, PREDICTIONS), MATCHES)

RecoverFromError(message) ==
    LET branch == RecoveryBranch(message)
    IN  /\ memoryCache' = CASE branch = "forceRefresh" -> <<>>
                            [] branch = "corrupted"    -> ClearCorruptedMemory(memoryCache)
                            [] OTHER                   -> memoryCache
        /\ localStorage' = CASE branch = "forceRefresh" -> ClearStorage(localStorage)
                             [] branch = "corrupted"    -> ClearCorruptedStorage(localStorage)
                             [] OTHER                   -> localStorage
        /\ ret' = [op |-> "recoverFromError", message |-> message, value |-> TRUE]
        /\ written' =
              [k \in DOMAIN written |->
                  IF \/ branch = "forceRefresh"
                     \/ /\ branch = "corrupted"
                        /\ StartsWith(k, PREDICTIONS) \/ StartsWith(k, MATCHES)
                  THEN NoWrite ELSE written[k]]
        /\ UNCHANGED <<now, config, limiter, metrics, calls>>

----------------------------------------------------------------------------
(* The same methods when a call on the Storage raises (a SecurityError, a  *)
(* storage that went away): each call sits in a try block whose catch only *)
(* logs, so the method goes on after the block.                            *)

StorageFaults == {"getItem", "removeItem"}

\* get(key) when getItem raises, or when the removeItem of an expired
\* record raises: the catch, then misses++ and return null
GetRaising(key, fault) ==
    LET fullKey == storagePrefix \o key
        stored  == StoredFor(fullKey)
    IN  /\ storageCache
        /\ ~MemoryHit(fullKey)
        /\ fault \in StorageFaults
        /\ fault = "removeItem" =>
              (stored # <<>> /\ CanParse(stored) /\ isExpired(Parse(stored)))
        /\ metrics' = [metrics EXCEPT !.misses = @ + 1]
        /\ ret' = [op |-> "get", key |-> key, hit |-> FALSE, value |-> Null,
                   raised |-> fault]
        /\ UNCHANGED <<now, config, limiter, memoryCache, localStorage, calls,
                       written>>

\* storageDeleted is assigned after removeItem
DeleteRaisingReturnsFound(m, st, key, fault) ==
    \/ MapHas(m, storagePrefix \o key)
    \/ fault = "removeItem"

\* what delete returns when a tier-2 call raised
DeleteRaisingReturns(m, st, key, fault) == MapHas(m, storagePrefix \o key)

\* delete(key) when getItem raises, or when removeItem raises
DeleteRaising(key, fault) ==
    /\ storageCache
    /\ fault \in StorageFaults
    /\ fault = "removeItem" => storagePrefix \o key \in DOMAIN localStorage
    /\ memoryCache' = DeleteMemory(memoryCache, key)
    /\ ret' = [op |-> "delete", key |-> key,
               value |-> DeleteRaisingReturns(memoryCache, localStorage, key, fault),
               raised |-> fault]
    /\ written' = Forget(written, {storagePrefix \o key})
    /\ UNCHANGED <<now, config, limiter, localStorage, metrics, calls>>

\* the removal loops of clear and clearByPrefix when a call raises: the
\* enumeration raises and nothing is removed, or a removeItem raises after
\* some of the keys collected were removed
RemovedBeforeRaise(keysToRemove) ==
    {R \in SUBSET keysToRemove : R # keysToRemove \/ keysToRemove = {}}

ClearRaising(removed) ==
    /\ storageCache
    /\ removed \in RemovedBeforeRaise(StorageKeysWith(localStorage, storagePrefix))
    /\ memoryCache' = <<>>
    /\ localStorage' = StorageRemoveAll(localStorage, removed)
    /\ ret' = [op |-> "clear", removed |-> MapKeys(memoryCache) \cup removed,
               raised |-> "removeItem"]
    /\ written' = [k \in DOMAIN written |-> NoWrite]
    /\ UNCHANGED <<now, config, limiter, metrics, calls>>

ClearByPrefixRaising(prefix, removed) ==
    /\ storageCache
    /\ removed \in RemovedBeforeRaise(
                      StorageKeysWith(localStorage, storagePrefix \o prefix))
    /\ memoryCache' = ClearPrefixMemory(memoryCache, prefix)
    /\ localStorage' = StorageRemoveAll(localStorage, removed)
    /\ ret' = [op |-> "clearByPrefix", key |-> prefix,
               removed |-> {k \in MapKeys(memoryCache) :
                              StartsWith(k, storagePrefix \o prefix)} \cup removed,
               raised |-> "removeItem"]
    /\ written' = [k \in DOMAIN written |->
                      IF StartsWith(k, prefix) THEN NoWrite ELSE written[k]]
    /\ UNCHANGED <<now, config, limiter, metrics, calls>>

----------------------------------------------------------------------------
(* CacheManager.touch *)

\* newTtl is None or Some(n); `if (newTtl)` also skips a zero
Touch(key, newTtl) ==
    LET fullKey == storagePrefix \o key
        entry   == MapGet(memoryCache, fullKey)
        ttl     == IF newTtl # None /\ newTtl[1] # 0 THEN newTtl[1] ELSE entry.ttl
    IN  /\ IF MemoryHit(fullKey)
           THEN /\ memoryCache' = MapSet(memoryCache, fullKey,
                                         [entry EXCEPT !.timestamp = now, !.ttl = ttl])
                /\ ret' = [op |-> "touch", key |-> key, value |-> TRUE,
                           newTtl |-> newTtl]
                /\ written' = Forget(written, {fullKey})
           ELSE /\ ret' = [op |-> "touch", key |-> key, value |-> FALSE,
                           newTtl |-> newTtl]
                /\ UNCHANGED <<memoryCache, written>>
        /\ UNCHANGED <<now, config, limiter, localStorage, metrics, calls>>

----------------------------------------------------------------------------
(* CacheManager.getOrSet: get, then (on null) await fetcher(), then set.   *)
(* The call is suspended only while the fetcher runs.                      *)

Idle == [pc |-> "idle"]

GetOrSet(c, key, options) ==
    /\ calls[c].pc = "idle"
    /\ GetBody(key)
    /\ IF GetValue(key) # Null
       THEN /\ ret' = [op |-> "getOrSet", key |-> key, value |-> GetValue(key),
                       fetches |-> 0]
            /\ UNCHANGED calls
       ELSE /\ calls' = [calls EXCEPT ![c] = [pc |-> "fetcher", key |-> key,
                                              options |-> options]]
            /\ ret' = [op |-> "fetcher", key |-> key]
    /\ UNCHANGED <<now, config, limiter, written>>

\* the fetcher's promise resolves with data: set, then return data
FetcherResolves(c, data, outcome) ==
    /\ calls[c].pc = "fetcher"
    /\ SetBody(calls[c].key, data, calls[c].options, outcome)
    /\ calls' = [calls EXCEPT ![c] = Idle]
    /\ ret' = [op |-> "getOrSet", key |-> calls[c].key, value |-> data, fetches |-> 1]
    /\ UNCHANGED <<now, config, limiter>>

\* the fetcher's promise rejects: getOrSet rejects and nothing is stored
FetcherRejects(c) ==
    /\ calls[c].pc = "fetcher"
    /\ calls' = [calls EXCEPT ![c] = Idle]
    /\ ret' = [op |-> "getOrSet", key |-> calls[c].key, value |-> "rejected",
               fetches |-> 1]
    /\ UNCHANGED <<now, config, limiter, memoryCache, localStorage, metrics, written>>

----------------------------------------------------------------------------
(* CacheManager.resetMetrics *)

ZeroMetrics == [hits |-> 0, misses |-> 0, sets |-> 0, evictions |-> 0]

ResetMetrics ==
    /\ metrics' = ZeroMetrics
    /\ ret' = [op |-> "resetMetrics"]
    /\ UNCHANGED <<now, config, limiter, memoryCache, localStorage, calls, written>>

----------------------------------------------------------------------------
(* A new page load: the module is evaluated again, so the singleton is     *)
(* constructed afresh over the localStorage the last load left behind.     *)

Reload ==
    /\ memoryCache' = <<>>
    /\ metrics' = ZeroMetrics
    /\ calls' = [c \in DOMAIN calls |-> Idle]
    /\ ret' = [op |-> "new"]
    /\ written' = [k \in DOMAIN written |->
                      IF /\ written[k] # NoWrite
                         /\ storagePrefix \o k \in DOMAIN localStorage
                         /\ localStorage[storagePrefix \o k] =
                               Stringify([data |-> written[k].data,
                                          timestamp |-> written[k].at,
                                          ttl |-> written[k].ttl])
                      THEN written[k] ELSE NoWrite]
    /\ UNCHANGED <<now, config, limiter, localStorage>>

----------------------------------------------------------------------------
(* The clock. *)

Tick ==
    /\ now < MaxClock
    /\ now' = now + 1
    /\ ret' = [op |-> "tick"]
    /\ UNCHANGED <<config, cache, limiter>>

----------------------------------------------------------------------------
(* The rate limiter of dataServiceCached.  requestCache is keyed by the    *)
(* timestamp (`${now}`), so it is a function from the timestamps recorded  *)
(* to their counts.  resetTime is an ISO string of a millisecond instant.  *)

RATE_LIMIT_WINDOW       == 60 * 1000
MAX_REQUESTS_PER_WINDOW == 10

\* new Date(ms).toISOString(): the instant, tagged as a string of that form
ToISOString(ms) == <<"iso", ms>>

\* Math.ceil(a / b) for b > 0
CeilDiv(a, b) == -((-a) \div b)

RateInfo(limited, resetTime, remaining, cooldown) ==
    [isRateLimited |-> limited, resetTime |-> resetTime,
     remainingRequests |-> remaining, cooldownMinutes |-> cooldown]

InitialRateInfo == RateInfo(FALSE, None, None, None)

RECURSIVE SumCounts(_, _)
SumCounts(rc, stamps) ==
    IF stamps = {} THEN 0
    ELSE LET t == CHOOSE x \in stamps : TRUE
         IN  rc[t] + SumCounts(rc, stamps \ {t})

\* "Clean old entries"
CleanedInclusive(rc, t) ==
    [x \in {y \in DOMAIN rc : y > t - RATE_LIMIT_WINDOW} |-> rc[x]]

Cleaned(rc, t) ==
    [x \in {y \in DOMAIN rc : ~(y < t - RATE_LIMIT_WINDOW)} |-> rc[x]]

recentRequests(rc, t) ==
    SumCounts(rc, {x \in DOMAIN rc : x >= t - RATE_LIMIT_WINDOW})

\* the loop that starts from oldestRequest = now
oldestRequest(rc, t) ==
    IF \E x \in DOMAIN rc : x < t
    THEN CHOOSE x \in DOMAIN rc : \A y \in DOMAIN rc : x <= y
    ELSE t

\* a limiter that, once limited, stays limited
checkRateLimitLatched(rc, t) ==
    IF rateLimitInfo.isRateLimited \/ recentRequests(rc, t) >= MAX_REQUESTS_PER_WINDOW
    THEN RateInfo(TRUE, Some(ToISOString(oldestRequest(rc, t) + RATE_LIMIT_WINDOW)),
                  Some(0), Some(1))
    ELSE RateInfo(FALSE, None,
                  Some(MAX_REQUESTS_PER_WINDOW - recentRequests(rc, t)), None)

\* a limiter that lets the request through at exactly the maximum
checkRateLimitOver(rc, t) ==
    IF recentRequests(rc, t) > MAX_REQUESTS_PER_WINDOW
    THEN LET resetTime == oldestRequest(rc, t) + RATE_LIMIT_WINDOW
         IN  RateInfo(TRUE, Some(ToISOString(resetTime)), Some(0),
                      Some(CeilDiv(resetTime - t, 60 * 1000)))
    ELSE RateInfo(FALSE, None,
                  Some(MAX_REQUESTS_PER_WINDOW - recentRequests(rc, t)), None)

\* checkRateLimit at time t over the cleaned requestCache rc: what it
\* assigns to rateLimitInfo and returns
checkRateLimit(rc, t) ==
    IF recentRequests(rc, t) >= MAX_REQUESTS_PER_WINDOW
    THEN LET resetTime == oldestRequest(rc, t) + RATE_LIMIT_WINDOW
         IN  RateInfo(TRUE, Some(ToISOString(resetTime)), Some(0),
                      Some(CeilDiv(resetTime - t, 60 * 1000)))
    ELSE RateInfo(FALSE, None,
                  Some(MAX_REQUESTS_PER_WINDOW - recentRequests(rc, t)), None)

recordRequest(rc, t) ==
    [x \in DOMAIN rc \cup {t} |->
        IF x # t THEN rc[x]
        ELSE IF t \in DOMAIN rc THEN rc[t] + 1 ELSE 1]

\* parseInt of a header string (a sequence of characters): the number its
\* leading digits spell, NaN when it has none
NaN == -2147483647

IsDigit(c) == c \in {"0", "1", "2", "3", "4", "5", "6", "7", "8", "9"}

DigitValue(c) == CHOOSE d \in 0..9 : ToString(d) = c

RECURSIVE ParseDigits(_, _)
ParseDigits(str, acc) ==
    IF str = <<>> \/ ~IsDigit(Head(str)) THEN acc
    ELSE ParseDigits(Tail(str), acc * 10 + DigitValue(Head(str)))

parseInt(str) ==
    IF str = <<>> \/ ~IsDigit(Head(str)) THEN NaN ELSE ParseDigits(str, 0)

\* a header read with response.headers.get is truthy: present and not ""
Truthy(header) == header # None /\ header[1] # <<>>

\* new Date(NaN).toISOString() throws a RangeError
handleRateLimitResponseThrows(status, resetTime) ==
    status = 429 /\ Truthy(resetTime) /\ parseInt(resetTime[1]) = NaN

\* handleRateLimitResponse: status, and the two headers (None when absent);
\* what it leaves in rateLimitInfo
handleRateLimitResponse(info, t, status, remaining, resetTime) ==
    IF handleRateLimitResponseThrows(status, resetTime) THEN info
    ELSE IF status = 429
    THEN LET resetDate == IF Truthy(resetTime) THEN parseInt(resetTime[1]) * 1000
                          ELSE t + 60 * 1000
         IN  RateInfo(TRUE, Some(ToISOString(resetDate)), Some(0),
                      Some(CeilDiv(resetDate - t, 60 * 1000)))
    ELSE IF Truthy(remaining)
    THEN [info EXCEPT !.remainingRequests = Some(parseInt(remaining[1])),
                      !.isRateLimited = FALSE,
                      !.resetTime = None]
    ELSE info

\* A data-service fetcher after its cache miss: checkRateLimit and, when
\* not limited, recordRequest and the start of the fetch, in one turn of
\* the event loop.
FetchStart ==
    LET cleaned == Cleaned(requestCache, now)
        info    == checkRateLimit(cleaned, now)
    IN  /\ rateLimitInfo' = info
        /\ requestCache' = IF info.isRateLimited THEN cleaned
                           ELSE recordRequest(cleaned, now)
        /\ inflight' = IF info.isRateLimited THEN inflight ELSE inflight + 1
        /\ ret' = [op |-> "checkRateLimit", value |-> info,
                   discarded |-> SumCounts(requestCache,
                                           DOMAIN requestCache \ DOMAIN cleaned)]
        /\ UNCHANGED <<now, config, cache>>

\* the upstream response of a started fetch arrives
FetchResponse(status, remaining, resetTime) ==
    /\ inflight > 0
    /\ inflight' = inflight - 1
    /\ rateLimitInfo' = handleRateLimitResponse(rateLimitInfo, now, status,
                                                remaining, resetTime)
    /\ ret' = [op |-> "handleRateLimitResponse", status |-> status,
               remaining |-> remaining, resetTime |-> resetTime,
               threw |-> handleRateLimitResponseThrows(status, resetTime)]
    /\ UNCHANGED <<now, config, cache, requestCache>>

\* the fetch of a started request throws: the fetcher's catch block runs
FetchFails ==
    /\ inflight > 0
    /\ inflight' = inflight - 1
    /\ ret' = [op |-> "fetchFails"]
    /\ UNCHANGED <<now, config, cache, requestCache, rateLimitInfo>>

\* the exported resetRateLimit
ResetRateLimit ==
    /\ rateLimitInfo' = InitialRateInfo
    /\ requestCache' = [x \in {} |-> 0]
    /\ ret' = [op |-> "resetRateLimit"]
    /\ UNCHANGED <<now, config, cache, inflight>>

\* the clock jumps to a later instant
Advance(t) ==
    /\ t > now
    /\ now' = t
    /\ ret' = [op |-> "tick"]
    /\ UNCHANGED <<config, cache, limiter>>

----------------------------------------------------------------------------
(* fetchCompetitions, the data-service fetcher whose cache key is          *)
(* 'competitions': checkCache, then checkRateLimit and recordRequest, then *)
(* the awaited fetch, then setCache.  A call is suspended after checkCache *)
(* and while the fetch runs.                                               *)

CACHE_TTL_COMPETITIONS == 24 * 60 * 60 * 1000

\* Response.ok
ResponseOk(status) == 200 <= status /\ status <= 299

\* a fetcher that caches whatever came back without a 429
FetchCachesAnyStatus(status, resetTime, body) ==
    /\ ~handleRateLimitResponseThrows(status, resetTime)
    /\ status # 429
    /\ body # "invalid"

\* the response takes the fetcher to setCache: no throw in
\* handleRateLimitResponse, not a 429, res.ok, and a body res.json() parses
FetchCaches(status, resetTime, body) ==
    /\ ~handleRateLimitResponseThrows(status, resetTime)
    /\ status # 429
    /\ ResponseOk(status)
    /\ body # "invalid"

\* cached = await checkCache(cacheKey); if (cached) return cached
FetchCompetitionsBegin(c) ==
    /\ calls[c].pc = "idle"
    /\ GetBody(COMPETITIONS)
    /\ IF GetValue(COMPETITIONS) # Null
       THEN /\ ret' = [op |-> "fetchCompetitions", from |-> "cache",
                       value |-> GetValue(COMPETITIONS)]
            /\ UNCHANGED calls
       ELSE /\ calls' = [calls EXCEPT ![c] = [pc |-> "missed"]]
            /\ ret' = [op |-> "checkCache", value |-> Null]
    /\ UNCHANGED <<now, config, limiter, written>>

\* checkRateLimit(); when limited return the empty result, else
\* recordRequest() and fetch
FetchCompetitionsCheck(c) ==
    LET cleaned == Cleaned(requestCache, now)
        info    == checkRateLimit(cleaned, now)
    IN  /\ calls[c].pc = "missed"
        /\ rateLimitInfo' = info
        /\ IF info.isRateLimited
           THEN /\ requestCache' = cleaned
                /\ calls' = [calls EXCEPT ![c] = Idle]
                /\ ret' = [op |-> "fetchCompetitions", from |-> "refused",
                           value |-> "empty"]
           ELSE /\ requestCache' = recordRequest(cleaned, now)
                /\ calls' = [calls EXCEPT ![c] = [pc |-> "fetching"]]
                /\ ret' = [op |-> "fetch"]
        /\ UNCHANGED <<now, config, inflight, memoryCache, localStorage, metrics,
                       written>>

\* the response arrives: handleRateLimitResponse, the status tests,
\* res.json(), setCache
FetchCompetitionsResponse(c, status, remaining, resetTime, body, outcome) ==
    /\ calls[c].pc = "fetching"
    /\ calls' = [calls EXCEPT ![c] = Idle]
    /\ rateLimitInfo' = handleRateLimitResponse(rateLimitInfo, now, status,
                                                remaining, resetTime)
    /\ IF FetchCaches(status, resetTime, body)
       THEN /\ SetBody(COMPETITIONS, body,
                       Options(Some(CACHE_TTL_COMPETITIONS), Some(TRUE), None), outcome)
            /\ ret' = [op |-> "fetchCompetitions", from |-> "upstream",
                       status |-> status, value |-> body]
       ELSE /\ ret' = [op |-> "fetchCompetitions", from |-> "upstream",
                       status |-> status, value |-> "empty"]
            /\ UNCHANGED <<memoryCache, localStorage, metrics, written>>
    /\ UNCHANGED <<now, config, requestCache, inflight>>

\* the fetch rejects: the catch block returns the empty result
FetchCompetitionsThrows(c) ==
    /\ calls[c].pc = "fetching"
    /\ calls' = [calls EXCEPT ![c] = Idle]
    /\ ret' = [op |-> "fetchCompetitions", from |-> "thrown", value |-> "empty"]
    /\ UNCHANGED <<now, config, limiter, memoryCache, localStorage, metrics, written>>

----------------------------------------------------------------------------
(* The RateLimitProvider of the UI keeps its own record in the same        *)
(* localStorage, under the key 'rateLimitInfo'.                            *)

RATE_LIMIT_INFO_KEY == <<"rateLimitInfo">>

\* updateRateLimitInfo(info)
UpdateRateLimitInfo(info) ==
    /\ localStorage' =
          IF info.isRateLimited /\ info.resetTime # None
          THEN StorageSetItem(localStorage, RATE_LIMIT_INFO_KEY,
                              <<"{", "isRateLimited", "true", "resetTime",
                                info.resetTime[1], "}">>)
          ELSE IF ~info.isRateLimited
          THEN StorageRemoveAll(localStorage, {RATE_LIMIT_INFO_KEY})
          ELSE localStorage
    /\ ret' = [op |-> "updateRateLimitInfo"]
    /\ UNCHANGED <<now, config, limiter, memoryCache, metrics, calls, written>>

----------------------------------------------------------------------------
(* CacheManager.getMetrics and CacheInvalidationService.smartRefresh.  A   *)
(* number with two decimals is kept as its count of hundredths; the string *)
(* toFixed(2) renders is a sequence of characters.                         *)

RECURSIVE Digits(_)
Digits(n) == IF n < 10 THEN <<ToString(n)>> ELSE Digits(n \div 10) \o <<ToString(n % 10)>>

\* a rendering that cuts the decimals after the second
HundredthsCut(hits, total) == (10000 * hits) \div total

\* (hits / total) * 100 rounded to two decimals, in hundredths
Hundredths(hits, total) == (20000 * hits + total) \div (2 * total)

\* Number.prototype.toFixed(2) of r hundredths
toFixed2(r) ==
    Digits(r \div 100) \o <<".", ToString((r % 100) \div 10), ToString(r % 10)>>

hitRate(m) ==
    IF m.hits + m.misses > 0
    THEN toFixed2(Hundredths(m.hits, m.hits + m.misses)) \o <<"%">>
    ELSE <<"0", "%">>

\* parseFloat of a string of digits with at most two decimals, in
\* hundredths; it stops at the first character that is not part of a number
parseFloat(str) ==
    LET whole == ParseDigits(str, 0)
        n     == Cardinality({i \in 1..Len(str) :
                                 \A j \in 1..i : IsDigit(str[j])})
        rest  == SubSeq(str, n + 1, Len(str))
    IN  IF rest # <<>> /\ Head(rest) = "."
        THEN whole * 100 + ParseDigits(SubSeq(rest, 2, 3), 0)
        ELSE whole * 100

GetMetrics ==
    /\ ret' = [op |-> "getMetrics", metrics |-> metrics, hitRate |-> hitRate(metrics)]
    /\ UNCHANGED <<now, config, cache, limiter>>

\* hitRate < 50
LowHitRate(m) == parseFloat(hitRate(m)) < 50 * 100

SmartRefresh ==
    /\ IF LowHitRate(metrics)
       THEN /\ memoryCache' = <<>>
            /\ localStorage' = ClearStorage(localStorage)
            /\ written' = [k \in DOMAIN written |-> NoWrite]
       ELSE UNCHANGED <<memoryCache, localStorage, written>>
    /\ ret' = [op |-> "smartRefresh",
               refreshed |-> IF LowHitRate(metrics)
                             THEN <<"all-cache">> ELSE <<"selective">>,
               skipped |-> <<>>, errors |-> <<>>]
    /\ UNCHANGED <<now, config, limiter, metrics, calls>>

\* n calls of get(key) in a row, as the loops of the test suite make them:
\* on a key tier 1 holds live each is a hit, on a key no tier holds each is
\* a miss, and nothing else changes
GetTimes(key, n) ==
    LET fullKey == storagePrefix \o key
    IN  /\ MemoryHit(fullKey) \/ (~MapHas(memoryCache, fullKey) /\ StoredFor(fullKey) = <<>>)
        /\ metrics' = IF MemoryHit(fullKey)
                      THEN [metrics EXCEPT !.hits = @ + n]
                      ELSE [metrics EXCEPT !.misses = @ + n]
        /\ ret' = [op |-> "get", key |-> key, hit |-> MemoryHit(fullKey),
                   value |-> GetValue(key), times |-> n]
        /\ UNCHANGED <<now, config, limiter, memoryCache, localStorage, calls, written>>

----------------------------------------------------------------------------
(* The state after construction, for a capacity, a set of tracked keys and *)
(* a set of callers.                                                       *)

InitCache(max, keys, callers) ==
    /\ now = 0
    /\ maxMemoryEntries = max
    /\ storageCache \in BOOLEAN
    /\ memoryCache = <<>>
    /\ localStorage = [k \in {} |-> <<>>]
    /\ metrics = ZeroMetrics
    /\ calls = [c \in callers |-> Idle]
    /\ requestCache = [x \in {} |-> 0]
    /\ rateLimitInfo = InitialRateInfo
    /\ inflight = 0
    /\ ret = [op |-> "new"]
    /\ written = [k \in keys |-> NoWrite]

----------------------------------------------------------------------------
(* Spec: one key through every operation of the store, with every tier-2   *)
(* write outcome, over a clock that passes the time-to-live.               *)

Keys     == {PREDICTIONS \o <<"a">>}
Prefixes == {PREDICTIONS, MATCHES}
Vals     == {"v1", "v2"}
Ttls     == {1, 2}
Callers  == {1}

Init == InitCache(1000, Keys, Callers)

Next ==
    \/ \E k \in Keys : GetsBelow(MaxGets) /\ Get(k)
    \/ \E k \in Keys, v \in Vals, t \in Ttls, p \in {None, Some(FALSE)},
          w \in WriteOutcomes :
          SetsBelow(MaxSets) /\ Set(k, v, Options(Some(t), p, None), w)
    \/ \E k \in Keys : Delete(k)
    \/ Clear
    \/ \E p \in Prefixes : ClearByPrefix(p)
    \/ \E k \in Keys, t \in {None} \cup {Some(x) : x \in Ttls} : Touch(k, t)
    \/ ResetMetrics
    \/ Reload
    \/ Tick

Spec == Init /\ [][Next]_vars

----------------------------------------------------------------------------
(* SpecKeys: keys of two namespaces under the operations that remove keys. *)

NamespaceKeys     == {PREDICTIONS \o <<"a">>, PREDICTIONS \o <<"b">>, MATCHES \o <<"a">>}
NamespacePrefixes == {PREDICTIONS, MATCHES, PREDICTIONS \o <<"a">>, <<>>}

InitKeys == InitCache(1000, {}, {})

NextKeys ==
    \/ \E k \in NamespaceKeys : GetsBelow(Burst) /\ Get(k)
    \/ \E k \in NamespaceKeys, p \in {None, Some(FALSE)} :
          SetsBelow(Burst) /\ Set(k, "v1", Options(Some(1), p, None), "ok")
    \/ \E k \in NamespaceKeys : Delete(k)
    \/ \E p \in NamespacePrefixes : ClearByPrefix(p)
    \/ \E p \in NamespacePrefixes :
          InvalidateCache(InvalidationOptions(<<p>>, <<>>, FALSE, FALSE))
    \/ ResetMetrics
    \/ Reload
    \/ Tick

SpecKeys == InitKeys /\ [][NextKeys]_vars

----------------------------------------------------------------------------
(* SpecEvict: a store of capacity 5 written and read under the keys        *)
(* perf-test-1, perf-test-2, ... with the default time-to-live.  A key is  *)
(* first written once its predecessor is held in some tier, which fixes    *)
(* the names of the keys and nothing else.                                 *)

NEvictKeys == 6

EvictKey(i) == <<"perf-test-", ToString(i)>>

Held(key) ==
    \/ MapHas(memoryCache, storagePrefix \o key)
    \/ storagePrefix \o key \in DOMAIN localStorage

Introduced(i) == i = 1 \/ Held(EvictKey(i - 1)) \/ Held(EvictKey(i))

InitEvict == InitCache(5, {}, {}) /\ storageCache

NextEvict ==
    \/ \E i \in 1..NEvictKeys :
          GetsBelow(Burst) /\ Introduced(i) /\ Get(EvictKey(i))
    \/ \E i \in 1..NEvictKeys, w \in {"ok", "quota", "quota2"} :
          SetsBelow(Burst) /\ Introduced(i)
          /\ Set(EvictKey(i), "v1", Options(None, None, None), w)
    \/ ResetMetrics

SpecEvict == InitEvict /\ [][NextEvict]_vars

----------------------------------------------------------------------------
(* SpecFill: the write loop of the performance benchmark, which sets the   *)
(* keys perf-test-1, perf-test-2, ... one after the other, with reads of   *)
(* the keys written so far, on a store of capacity 5 or 10.                *)

FillOver == 1

FillCount == Cardinality(DOMAIN localStorage)

InitFill ==
    /\ \E max \in {5, 10} : InitCache(max, {}, {})
    /\ storageCache

NextFill ==
    \/ /\ FillCount < maxMemoryEntries + FillOver
       /\ SetsBelow(Burst)
       /\ Set(EvictKey(FillCount + 1), "v1", Options(None, None, None), "ok")
    \/ Touch(EvictKey(1), None)
    \/ \E i \in 1..FillCount : GetsBelow(Burst) /\ Get(EvictKey(i))
    \/ ResetMetrics
    \/ Tick

SpecFill == InitFill /\ [][NextFill]_vars

----------------------------------------------------------------------------
(* SpecGetOrSet: one caller of getOrSet on the competitions key, with      *)
(* fetchers that resolve to a value or to null, or reject.                 *)

FetcherVals == {"v1", "v2", Null}

InitGetOrSet == InitCache(1000, {}, {1}) /\ storageCache

NextGetOrSet ==
    \/ \E c \in DOMAIN calls :
          GetsBelow(Burst) /\ GetOrSet(c, COMPETITIONS, Options(Some(1), None, None))
    \/ \E c \in DOMAIN calls, v \in FetcherVals, w \in {"ok", "error"} :
          SetsBelow(Burst) /\ FetcherResolves(c, v, w)
    \/ \E c \in DOMAIN calls : FetcherRejects(c)
    \/ Delete(COMPETITIONS)
    \/ ResetMetrics
    \/ Tick

SpecGetOrSet == InitGetOrSet /\ [][NextGetOrSet]_vars

----------------------------------------------------------------------------
(* SpecFlight: two callers of getOrSet on the same key, each with its own  *)
(* fetcher, running concurrently.                                          *)

FlightCallers == {1, 2}

InitFlight == InitCache(1000, {}, FlightCallers) /\ storageCache

NextFlight ==
    \/ \E c \in FlightCallers :
          GetsBelow(MaxGets) /\ GetOrSet(c, COMPETITIONS, Options(Some(1), None, None))
    \/ \E c \in FlightCallers, v \in FetcherVals, w \in {"ok", "error"} :
          SetsBelow(MaxSets) /\ FetcherResolves(c, v, w)
    \/ \E c \in FlightCallers : FetcherRejects(c)
    \/ ResetMetrics
    \/ Tick

SpecFlight == InitFlight /\ [][NextFlight]_vars

----------------------------------------------------------------------------
(* SpecAccount: every operation of the store that could touch a counter,   *)
(* on a store of capacity 5 that is filled past its capacity.              *)

PERF_TEST == <<"perf-test-">>

InitAccount == InitCache(5, {}, {1}) /\ storageCache

NextAccount ==
    \/ /\ FillCount < maxMemoryEntries + FillOver
       /\ SetsBelow(Burst)
       /\ Set(EvictKey(FillCount + 1), "v1", Options(None, None, None), "ok")
    \/ \E i \in {1, 2} : GetsBelow(Burst) /\ Get(EvictKey(i))
    \/ \E c \in DOMAIN calls :
          GetsBelow(Burst) /\ GetOrSet(c, EvictKey(1), Options(None, None, None))
    \/ \E c \in DOMAIN calls : SetsBelow(Burst) /\ FetcherResolves(c, "v2", "ok")
    \/ \E c \in DOMAIN calls : FetcherRejects(c)
    \/ Delete(EvictKey(1))
    \/ Clear
    \/ ClearByPrefix(PERF_TEST)
    \/ \E t \in {None, Some(2)} : Touch(EvictKey(2), t)
    \/ ResetMetrics

SpecAccount == InitAccount /\ [][NextAccount]_vars

----------------------------------------------------------------------------
(* SpecFetch: two callers of fetchCompetitions against an upstream that    *)
(* answers 200, 429 or 500, with a body that parses or does not, or whose  *)
(* fetch throws; the limiter refuses once ten requests are recorded.       *)

FetchStatuses == {200, 429, 500}
FetchBodies   == {"v1", "invalid"}
FetchInstants == {0, 60001}

InitFetch == InitCache(1000, {}, {1, 2}) /\ storageCache

NextFetch ==
    \/ \E c \in DOMAIN calls : GetsBelow(Burst) /\ FetchCompetitionsBegin(c)
    \/ \E c \in DOMAIN calls : FetchCompetitionsCheck(c)
    \/ \E c \in DOMAIN calls, status \in FetchStatuses,
          resetTime \in {None, Some(<<"W", "e", "d">>)}, body \in FetchBodies :
          SetsBelow(Burst)
          /\ FetchCompetitionsResponse(c, status, None, resetTime, body, "ok")
    \/ \E c \in DOMAIN calls : FetchCompetitionsThrows(c)
    \/ Delete(COMPETITIONS)
    \/ ResetMetrics
    \/ \E t \in FetchInstants : Advance(t)

SpecFetch == InitFetch /\ [][NextFetch]_vars

----------------------------------------------------------------------------
(* SpecLimiter: the fetchers' use of the rate limiter at a few instants    *)
(* around one window.                                                      *)

Instants == {0, 30000, 60000, 60001}

MaxInflight == 2

ResponseStatus == {200, 429}

\* X-Requests-Available-Minute and X-RequestCounter-Reset, when present
RemainingHeaders == {None, Some(<<"5">>), Some(<<"0">>)}
ResetHeaders     == {None, Some(<<"9", "0">>), Some(<<"W", "e", "d">>)}

InitLimiter == InitCache(1000, {}, {}) /\ storageCache

NextLimiter ==
    \/ inflight < MaxInflight /\ FetchStart
    \/ \E status \in ResponseStatus, remaining \in RemainingHeaders,
          resetTime \in ResetHeaders :
          FetchResponse(status, remaining, resetTime)
    \/ FetchFails
    \/ ResetRateLimit
    \/ \E t \in Instants : Advance(t)

SpecLimiter == InitLimiter /\ [][NextLimiter]_vars

----------------------------------------------------------------------------
(* SpecNumber: the calls set(key, data, n) of the test suite, the README   *)
(* and the cached predictions route, which pass a number of milliseconds   *)
(* as third argument, at instants around n and around the default ttl.     *)

EXPIRE_TEST == <<"expire-test">>

NumberArgs == {50, 60000, 5 * 60 * 1000}

NumberInstants ==
    {50, 100, 60000, 60001, 5 * 60 * 1000 + 1, DEFAULT_TTL, DEFAULT_TTL + 1}

InitNumber == InitCache(1000, {EXPIRE_TEST}, {}) /\ storageCache

NextNumber ==
    \/ \E n \in NumberArgs :
          SetsBelow(Burst) /\ Set(EXPIRE_TEST, "v1", NumberAsOptions(n), "ok")
    \/ GetsBelow(Burst) /\ Get(EXPIRE_TEST)
    \/ Delete(EXPIRE_TEST)
    \/ ResetMetrics
    \/ \E t \in NumberInstants : Advance(t)

SpecNumber == InitNumber /\ [][NextNumber]_vars

----------------------------------------------------------------------------
(* SpecClear: two keys and the UI's record in one localStorage, with       *)
(* clear().                                                                *)

ClearKeys == {PREDICTIONS \o <<"a">>, MATCHES \o <<"a">>}

ProviderInfos ==
    {RateInfo(TRUE, Some(ToISOString(60000)), Some(0), Some(1)),
     RateInfo(FALSE, None, Some(9), None)}

InitClear == InitCache(1000, {}, {})

NextClear ==
    \/ \E k \in ClearKeys : GetsBelow(Burst) /\ Get(k)
    \/ \E k \in ClearKeys, p \in {None, Some(FALSE)} :
          SetsBelow(Burst) /\ Set(k, "v1", Options(Some(1), p, None), "ok")
    \/ Clear
    \/ \E info \in ProviderInfos : UpdateRateLimitInfo(info)
    \/ ResetMetrics
    \/ Reload
    \/ Tick

SpecClear == InitClear /\ [][NextClear]_vars

----------------------------------------------------------------------------
(* SpecTouch: one key with touch(k), touch(k, 0) and touch(k, 2).          *)

TouchArgs == {None, Some(0), Some(2)}

InitTouch == InitCache(1000, {}, {}) /\ storageCache

NextTouch ==
    \/ \E k \in Keys : GetsBelow(Burst) /\ Get(k)
    \/ \E k \in Keys, v \in Vals, t \in Ttls :
          SetsBelow(Burst) /\ Set(k, v, Options(Some(t), None, None), "ok")
    \/ \E k \in Keys, t \in TouchArgs : Touch(k, t)
    \/ \E k \in Keys : Delete(k)
    \/ ResetMetrics
    \/ Tick

SpecTouch == InitTouch /\ [][NextTouch]_vars

----------------------------------------------------------------------------
(* SpecFault: two keys through get, set, delete, clear and clearByPrefix,  *)
(* each with and without a call on the Storage that raises.                *)

InitFault == InitCache(1000, {}, {}) /\ storageCache

NextFault ==
    \/ \E k \in ClearKeys : GetsBelow(Burst) /\ Get(k)
    \/ \E k \in ClearKeys, f \in StorageFaults :
          GetsBelow(Burst) /\ GetRaising(k, f)
    \/ \E k \in ClearKeys, w \in {"ok", "error", "quota2"} :
          SetsBelow(Burst) /\ Set(k, "v1", Options(Some(1), None, None), w)
    \/ \E k \in ClearKeys : Delete(k)
    \/ \E k \in ClearKeys, f \in StorageFaults : DeleteRaising(k, f)
    \/ Clear
    \/ \E R \in SUBSET DOMAIN localStorage : ClearRaising(R)
    \/ ClearByPrefix(PREDICTIONS)
    \/ \E R \in SUBSET DOMAIN localStorage : ClearByPrefixRaising(PREDICTIONS, R)
    \/ ResetMetrics
    \/ Reload
    \/ Tick

SpecFault == InitFault /\ [][NextFault]_vars

----------------------------------------------------------------------------
(* SpecCorrupt: the records of the store are strings in a Storage that the *)
(* whole origin writes; a record can be cut short, and JSON.parse of it    *)
(* then throws inside get.                                                 *)

\* a record cut after its first tokens
Truncated(s) == SubSeq(s, 1, 3)

\* the record of key is replaced by a string that does not parse
StorageCorrupted(key) ==
    /\ storageCache
    /\ storagePrefix \o key \in DOMAIN localStorage
    /\ CanParse(localStorage[storagePrefix \o key])
    /\ localStorage' = StorageSetItem(localStorage, storagePrefix \o key,
                                      Truncated(localStorage[storagePrefix \o key]))
    /\ ret' = [op |-> "corrupted", key |-> key]
    /\ UNCHANGED <<now, config, limiter, memoryCache, metrics, calls, written>>

InitCorrupt == InitCache(1000, {}, {}) /\ storageCache

NextCorrupt ==
    \/ \E k \in ClearKeys : GetsBelow(Burst) /\ Get(k)
    \/ \E k \in ClearKeys :
          SetsBelow(Burst) /\ Set(k, "v1", Options(Some(1), None, None), "ok")
    \/ \E k \in ClearKeys : StorageCorrupted(k)
    \/ \E k \in ClearKeys : Delete(k)
    \/ ResetMetrics
    \/ Reload
    \/ Tick

SpecCorrupt == InitCorrupt /\ [][NextCorrupt]_vars

----------------------------------------------------------------------------
(* SpecReclaim: the keys perf-test-1, perf-test-2, ... written one after   *)
(* the other with every tier-2 outcome, the first two with a short or the  *)
(* default time-to-live, next to the RateLimitProvider's record in the     *)
(* same localStorage, a record that no longer parses, and the clock.  The  *)
(* storage accepts a new record while it holds fewer than StorageQuota     *)
(* records; from there on the first setItem of a set raises the quota      *)
(* error, and the one after the reclaim pass succeeds or raises it again.  *)

ReclaimKeys == 11

ShortLived == 2

StorageQuota == 10

ReclaimTtls(i) == IF i <= ShortLived THEN {None, Some(1)} ELSE {None}

QuotaOutcomes ==
    IF Cardinality(DOMAIN localStorage) < StorageQuota
    THEN {"ok"}
    ELSE {"quota", "quota2"}

InitReclaim == InitCache(1000, {}, {}) /\ storageCache

NextReclaim ==
    \/ \E w \in QuotaOutcomes :
       \E ttl \in ReclaimTtls(Len(memoryCache) + 1) :
          /\ Len(memoryCache) < ReclaimKeys
          /\ Set(EvictKey(Len(memoryCache) + 1), "v1", Options(ttl, None, None), w)
    \/ StorageCorrupted(EvictKey(1))
    \/ \E info \in ProviderInfos : UpdateRateLimitInfo(info)
    \/ Tick

SpecReclaim == InitReclaim /\ [][NextReclaim]_vars

----------------------------------------------------------------------------
(* SpecInvalidate: invalidateCache with every combination of its options   *)
(* over the keys of two namespaces, next to the UI's own record.           *)

PrefixLists == {<<>>, <<PREDICTIONS \o <<"a">>>>, <<PREDICTIONS, MATCHES>>}

KeyLists == {<<>>, <<MATCHES \o <<"a">>>>}

InitInvalidate == InitCache(1000, {}, {})

NextInvalidate ==
    \/ \E k \in NamespaceKeys, p \in {None, Some(FALSE)} :
          SetsBelow(Burst) /\ Set(k, "v1", Options(Some(1), p, None), "ok")
    \/ \E ps \in PrefixLists, ks \in KeyLists, e \in BOOLEAN, f \in BOOLEAN :
          InvalidateCache(InvalidationOptions(ps, ks, e, f))
    \/ \E info \in ProviderInfos : UpdateRateLimitInfo(info)
    \/ ResetMetrics
    \/ Reload
    \/ Tick

SpecInvalidate == InitInvalidate /\ [][NextInvalidate]_vars

----------------------------------------------------------------------------
(* SpecRecover: recoverFromError over error messages of every kind, on a   *)
(* store that holds keys of the two volatile namespaces and another key.   *)

RecoverKeys == {PREDICTIONS \o <<"a">>, MATCHES \o <<"a">>, COMPETITIONS}

ErrorMessages ==
    {<<"QuotaExceededError", ": the quota has been exceeded">>,
     <<"Unexpected token < in ", "JSON", " at position 0">>,
     <<"Network", " request failed">>,
     <<"Failed to ", "fetch">>,
     <<"Failed to ", "fetch", ": Unexpected end of ", "JSON", " input">>,
     <<"QuotaExceededError", " while storing ", "JSON">>,
     <<"Request timed out">>}

InitRecover == InitCache(1000, {}, {})

NextRecover ==
    \/ \E k \in RecoverKeys, p \in {None, Some(FALSE)} :
          SetsBelow(Burst) /\ Set(k, "v1", Options(Some(1), p, None), "ok")
    \/ \E message \in ErrorMessages : RecoverFromError(message)
    \/ \E info \in ProviderInfos : UpdateRateLimitInfo(info)
    \/ ResetMetrics
    \/ Reload
    \/ Tick

SpecRecover == InitRecover /\ [][NextRecover]_vars

----------------------------------------------------------------------------
(* SpecMetrics: the 'Cache Hit Rate Tracking' test made general: a key     *)
(* that is set and a key that never is, read one at a time or in long      *)
(* runs, with getMetrics and smartRefresh in between.                      *)

METRICS_TEST == <<"metrics-test">>
NON_EXISTENT == <<"non-existent-key">>

LongRun  == 5000    \* the gets of one long run
MaxReads == 10      \* bound of the gets made outside long runs
MaxRuns  == 2       \* bound of the long runs

ReadCounts == {1, 5, LongRun}

ReadsBelow(n) ==
    IF n = LongRun
    THEN (metrics.hits + metrics.misses) \div LongRun < MaxRuns
    ELSE (metrics.hits % LongRun) + (metrics.misses % LongRun) + n <= MaxReads

InitMetrics == InitCache(1000, {}, {})

NextMetrics ==
    \/ \E k \in {METRICS_TEST, NON_EXISTENT}, n \in ReadCounts :
          ReadsBelow(n) /\ GetTimes(k, n)
    \/ SetsBelow(Burst) /\ Set(METRICS_TEST, "v1", NumberAsOptions(60000), "ok")
    \/ GetMetrics
    \/ SmartRefresh
    \/ ResetMetrics

SpecMetrics == InitMetrics /\ [][NextMetrics]_vars

----------------------------------------------------------------------------
(* Steps and states, as the claims speak of them. *)

\* this step is a completed get(key), set(key, ...), delete(key)
GetStep(key)    == ret'.op = "get" /\ ret'.key = key
SetStep(key)    == ret'.op = "set" /\ ret'.key = key
DeleteStep(key) == ret'.op = "delete" /\ ret'.key = key

Absent == [data |-> "absent"]

\* the entry tier 1 holds for a logical key, and the record tier 2 holds
Tier1(key) ==
    IF \E i \in 1..Len(memoryCache) : memoryCache[i].key = storagePrefix \o key
    THEN (CHOOSE x \in {memoryCache[i] : i \in 1..Len(memoryCache)} :
             x.key = storagePrefix \o key).entry
    ELSE Absent

Tier2(key) ==
    IF storagePrefix \o key \in DOMAIN localStorage
    THEN localStorage[storagePrefix \o key]
    ELSE <<"absent">>

\* an entry is live at the current clock
Live(entry) == entry # Absent /\ now - entry.timestamp <= entry.ttl

----------------------------------------------------------------------------
(* C1: after set(k, v, {ttl: t}) at clock c, with no later delete, clear,  *)
(* clearByPrefix, rewrite (a touch re-stamps the entry and counts as one)  *)
(* or eviction of k, get(k) at clock c' returns v when c' - c <= t and a   *)
(* miss (null) when c' - c > t.                                            *)
C1_TtlCorrectness ==
    (ret.op = "get" /\ written[ret.key] # NoWrite) =>
        LET w == written[ret.key]
        IN  /\ (now - w.at <= w.ttl) => (ret.hit /\ ret.value = w.data)
            /\ (now - w.at > w.ttl)  => (~ret.hit /\ ret.value = Null)

----------------------------------------------------------------------------
(* C2: set(k, v) immediately followed by get(k) returns v, also when the   *)
(* set ran the eviction pass and when its tier-2 write failed.             *)
C2_ReadYourWrite ==
    [][\A i \in 1..NEvictKeys :
          (ret.op = "set" /\ ret.key = EvictKey(i) /\ GetStep(EvictKey(i)))
             => (ret'.hit /\ ret'.value = ret.value)]_vars

----------------------------------------------------------------------------
(* C3: tier 1 never holds more than maxMemoryEntries entries.              *)
C3_HardCapacity == Len(memoryCache) <= maxMemoryEntries

----------------------------------------------------------------------------
----------------------------------------------------------------------------
(* C6: delete(k) returns true exactly when a tier held k; afterwards no    *)
(* tier holds k, and k is held again only through a set(k), every get(k)   *)
(* before that being a miss; a delete of an absent key changes nothing;    *)
(* the entries of the other keys are unchanged.                            *)
C6_Delete ==
    [][\A k \in NamespaceKeys :
          /\ DeleteStep(k) =>
                /\ ret'.value = (Tier1(k) # Absent \/ Tier2(k) # <<"absent">>)
                /\ Tier1(k)' = Absent /\ Tier2(k)' = <<"absent">>
                /\ ~ret'.value =>
                      (memoryCache' = memoryCache /\ localStorage' = localStorage)
                /\ \A j \in NamespaceKeys \ {k} :
                      Tier1(j)' = Tier1(j) /\ Tier2(j)' = Tier2(j)
                /\ metrics' = metrics
          /\ (Tier1(k) = Absent /\ Tier2(k) = <<"absent">>) =>
                /\ GetStep(k) => (~ret'.hit /\ ret'.value = Null)
                /\ (Tier1(k)' # Absent \/ Tier2(k)' # <<"absent">>) => SetStep(k)]_vars

\* a delete has removed a key that only tier 2 held, another key staying
C6_Witness ==
    /\ ret.op = "delete" /\ ret.value
    /\ memoryCache = <<>>
    /\ Tier2(ret.key) = <<"absent">>
    /\ \E j \in NamespaceKeys : Tier2(j) # <<"absent">>

----------------------------------------------------------------------------
(* C7: clearByPrefix(p), called directly or as                              *)
(* invalidateCache({invalidateByPrefix: [p]}), removes from both tiers     *)
(* every key that starts with p and leaves every other key's entries       *)
(* unchanged.                                                              *)
C7_PrefixIsolation ==
    [][\A p \in NamespacePrefixes :
          (\/ ret'.op = "clearByPrefix" /\ ret'.key = p
           \/ ret'.op = "invalidateCache" /\ ret'.options.invalidateByPrefix = <<p>>)
          => \A k \in NamespaceKeys :
                IF Len(p) <= Len(k) /\ \A i \in 1..Len(p) : k[i] = p[i]
                THEN Tier1(k)' = Absent /\ Tier2(k)' = <<"absent">>
                ELSE Tier1(k)' = Tier1(k) /\ Tier2(k)' = Tier2(k)]_vars

\* clearByPrefix("predictions_") has removed keys and matches_a is held in
\* both tiers and readable
C7_Witness ==
    /\ ret.op = "clearByPrefix" /\ ret.key = PREDICTIONS
    /\ Cardinality(ret.removed) = 2
    /\ Live(Tier1(MATCHES \o <<"a">>))
    /\ Tier2(MATCHES \o <<"a">>) # <<"absent">>
    /\ GetValue(MATCHES \o <<"a">>) = "v1"

----------------------------------------------------------------------------
(* C4: when a set raises the tier-1 size above maxMemoryEntries, the       *)
(* entries removed from tier 1 are exactly the floor(maxMemoryEntries*0.2) *)
(* entries with the smallest createdAt, equal createdAt going by insertion *)
(* order; the evictions counter grows by the number removed; no other      *)
(* entry is removed or changed, and a set that does not overflow removes   *)
(* nothing.  With maxMemoryEntries = 10, the set of an eleventh key on ten *)
(* held ones removes 2, leaves at most 10 and raises evictions by 2.       *)

\* tier 1 as the set leaves it before the eviction pass: keys and createdAt
AfterWrite(fullKey) ==
    LET stamps == [j \in 1..Len(memoryCache) |->
                     [key   |-> memoryCache[j].key,
                      stamp |-> IF memoryCache[j].key = fullKey THEN now
                                ELSE memoryCache[j].entry.timestamp]]
    IN  IF \E j \in 1..Len(memoryCache) : memoryCache[j].key = fullKey
        THEN stamps
        ELSE Append(stamps, [key |-> fullKey, stamp |-> now])

C4_Eviction ==
    [][\A i \in 1..(maxMemoryEntries + FillOver) :
          SetStep(EvictKey(i)) =>
             LET fullKey == storagePrefix \o EvictKey(i)
                 after   == AfterWrite(fullKey)
                 removed == {j \in 1..Len(after) :
                               \A m \in 1..Len(memoryCache') :
                                  memoryCache'[m].key # after[j].key}
                 kept    == (1..Len(after)) \ removed
             IN  /\ IF Len(after) > maxMemoryEntries
                    THEN /\ Cardinality(removed) = (maxMemoryEntries * 2) \div 10
                         /\ \A r \in removed, k \in kept :
                               \/ after[r].stamp < after[k].stamp
                               \/ after[r].stamp = after[k].stamp /\ r < k
                    ELSE removed = {}
                 /\ metrics'.evictions = metrics.evictions + Cardinality(removed)
                 /\ Len(memoryCache') = Cardinality(kept)
                 /\ \A m \in 1..Len(memoryCache') :
                       memoryCache'[m].key # fullKey =>
                          \E j \in 1..Len(memoryCache) : memoryCache[j] = memoryCache'[m]
                 /\ (maxMemoryEntries = 10 /\ Len(memoryCache) = 10 /\ Len(after) = 11)
                       => /\ Cardinality(removed) = 2
                          /\ Len(memoryCache') <= 10
                          /\ metrics'.evictions = metrics.evictions + 2]_vars

\* capacity 10: the set of the eleventh key, every entry created at clock
\* 0, has just removed the first two keys inserted
C4_Witness ==
    /\ maxMemoryEntries = 10 /\ now = 0
    /\ ret.op = "set" /\ ret.key = EvictKey(11)
    /\ ret.evicted = {storagePrefix \o EvictKey(1), storagePrefix \o EvictKey(2)}
    /\ Len(memoryCache) = 9
    /\ Tier1(EvictKey(1)) = Absent /\ Tier1(EvictKey(2)) = Absent
    /\ \A i \in 3..11 : Tier1(EvictKey(i)) # Absent

----------------------------------------------------------------------------
(* C8: getOrSet(k, fetcher, options): for every stored payload, when a     *)
(* live entry for k exists the call returns its data and does not invoke   *)
(* the fetcher; when none exists it invokes the fetcher once, stores the   *)
(* result under k with the options given, and returns it.                  *)

\* the data of the live entry of a key, tier 1 first: None when there is none
LiveData(key) ==
    IF Live(Tier1(key)) THEN Some(Tier1(key).data)
    ELSE IF storageCache /\ Tier2(key) # <<"absent">>
            /\ now - Tier2(key)[5] <= Tier2(key)[7]
    THEN Some(Tier2(key)[3])
    ELSE None

C8_GetOrSet ==
    [][\A c \in DOMAIN calls :
          /\ (/\ calls[c].pc = "idle"
              /\ ret'.op \in {"getOrSet", "fetcher"}
              /\ ret'.key = COMPETITIONS)
                => IF LiveData(COMPETITIONS) # None
                   THEN /\ ret'.op = "getOrSet"
                        /\ ret'.fetches = 0
                        /\ ret'.value = LiveData(COMPETITIONS)[1]
                        /\ calls'[c].pc = "idle"
                   ELSE calls'[c].pc = "fetcher"
          /\ (/\ calls[c].pc = "fetcher"
              /\ calls'[c].pc = "idle"
              /\ ret'.op = "getOrSet"
              /\ ret'.value # "rejected")
                => /\ ret'.fetches = 1
                   /\ calls[c].key = COMPETITIONS
                   /\ Tier1(COMPETITIONS)' # Absent
                   /\ Tier1(COMPETITIONS)'.data = ret'.value
                   /\ Tier1(COMPETITIONS)'.timestamp = now
                   /\ Tier1(COMPETITIONS)'.ttl = OptTtl(calls[c].options)]_vars

----------------------------------------------------------------------------
(* C9: when the tier-2 write of set(k, v) fails with a quota-exceeded      *)
(* error, one reclaim pass runs and the write is tried once more, two      *)
(* attempts in all; whether the second succeeds or fails, tier 1 holds the *)
(* new entry and the get(k) that follows at once returns v.                *)
C9_QuotaRecovery ==
    [][\A i \in 1..NEvictKeys :
          /\ (SetStep(EvictKey(i)) /\ ret'.tier2 \in {"quota", "quota2"})
                => /\ ret'.reclaims = 1
                   /\ ret'.writes = 2
                   /\ Tier1(EvictKey(i))' # Absent
                   /\ Tier1(EvictKey(i))'.data = ret'.value
                   /\ Tier1(EvictKey(i))'.timestamp = now
          /\ (/\ ret.op = "set" /\ ret.key = EvictKey(i)
              /\ ret.tier2 \in {"quota", "quota2"}
              /\ GetStep(EvictKey(i)))
                => (ret'.hit /\ ret'.value = ret.value)]_vars

----------------------------------------------------------------------------
(* C10: checkRateLimit at time now, with maxRequests 10 and a window of    *)
(* 60000 ms, discards the requests recorded before now - 60000 and, count  *)
(* being the number of requests left: for count >= 10 returns limited,     *)
(* remainingRequests 0, resetTime the oldest timestamp left + 60000 and    *)
(* cooldownMinutes ceil((resetTime - now) / 60000); otherwise returns not  *)
(* limited with remainingRequests 10 - count.                              *)

\* the timestamps not older than the window, and the requests recorded at them
InWindow == {t \in DOMAIN requestCache : now - t <= 60000}

WindowCount == SumCounts(requestCache, InWindow)

\* the least m with m * 60000 >= d
CeilMinutes(d) == CHOOSE m \in -2..2 : m * 60000 >= d /\ (m - 1) * 60000 < d

C10_CheckRateLimit ==
    [][ret'.op = "checkRateLimit" =>
          LET info   == ret'.value
              oldest == CHOOSE t \in InWindow : \A u \in InWindow : t <= u
          IN  /\ \A t \in DOMAIN requestCache' : t \in InWindow \/ t = now
              /\ \A t \in InWindow : t \in DOMAIN requestCache'
              /\ IF WindowCount >= 10
                 THEN /\ info.isRateLimited
                      /\ info.remainingRequests = Some(0)
                      /\ info.resetTime = Some(ToISOString(oldest + 60000))
                      /\ info.cooldownMinutes =
                            Some(CeilMinutes(oldest + 60000 - now))
                      /\ requestCache' = [t \in InWindow |-> requestCache[t]]
                 ELSE /\ ~info.isRateLimited
                      /\ info.remainingRequests = Some(10 - WindowCount)]_vars

\* ten requests recorded at 0 and at 30000; the check at 30000 is limited
\* until 0 + 60000, one minute of cooldown
C10_Witness ==
    /\ now = 30000
    /\ ret.op = "checkRateLimit"
    /\ ret.value.isRateLimited
    /\ ret.value.remainingRequests = Some(0)
    /\ ret.value.resetTime = Some(ToISOString(60000))
    /\ ret.value.cooldownMinutes = Some(1)
    /\ DOMAIN requestCache = {0, 30000}
    /\ SumCounts(requestCache, DOMAIN requestCache) = 10

----------------------------------------------------------------------------
(* C11: the Limited state of the local window is not permanent: when       *)
(* exactly 10 requests are recorded, the oldest at t0, and no further one, *)
(* every checkRateLimit at a time now > t0 + 60000 returns isRateLimited   *)
(* false.                                                                  *)
C11_LimitedNotPermanent ==
    [][(/\ ret'.op = "checkRateLimit"
        /\ requestCache # <<>>
        /\ SumCounts(requestCache, DOMAIN requestCache) = 10
        /\ \E t0 \in DOMAIN requestCache :
              /\ \A u \in DOMAIN requestCache : t0 <= u
              /\ now > t0 + 60000)
          => ~ret'.value.isRateLimited]_vars

\* the check at 60001 has discarded the nine requests recorded at 0, found
\* the tenth, recorded at 30000, and returned open with 9 remaining
C11_Witness ==
    /\ now = 60001
    /\ ret.op = "checkRateLimit"
    /\ ret.discarded = 9
    /\ ~ret.value.isRateLimited
    /\ ret.value.remainingRequests = Some(9)
    /\ DOMAIN requestCache = {30000, 60001}
    /\ requestCache[30000] = 1 /\ requestCache[60001] = 1

----------------------------------------------------------------------------
(* C12: handleRateLimitResponse: on status 429 the limiter state becomes   *)
(* limited with remainingRequests 0 and resetTime the reset time the       *)
(* server declares in its header, or now + 60 s without the header; on     *)
(* another status with the remaining-quota header it becomes not limited   *)
(* with remainingRequests the header value and no resetTime; otherwise it  *)
(* is unchanged.  The recorded requests are unchanged in every case.       *)

\* the decimal string of a number below 100
Decimal(n) ==
    IF n < 10 THEN <<ToString(n)>> ELSE <<ToString(n \div 10), ToString(n % 10)>>

C12_ServerResponse ==
    [][ret'.op = "handleRateLimitResponse" =>
          /\ requestCache' = requestCache
          /\ IF ret'.status = 429
             THEN /\ rateLimitInfo'.isRateLimited
                  /\ rateLimitInfo'.remainingRequests = Some(0)
                  /\ IF ret'.resetTime = None
                     THEN rateLimitInfo'.resetTime = Some(ToISOString(now + 60000))
                     ELSE \E n \in 0..99 :
                             /\ Decimal(n) = ret'.resetTime[1]
                             /\ rateLimitInfo'.resetTime = Some(ToISOString(n * 1000))
             ELSE IF ret'.remaining # None
             THEN /\ ~rateLimitInfo'.isRateLimited
                  /\ \E n \in 0..99 :
                        /\ Decimal(n) = ret'.remaining[1]
                        /\ rateLimitInfo'.remainingRequests = Some(n)
                  /\ rateLimitInfo'.resetTime = None
             ELSE rateLimitInfo' = rateLimitInfo]_vars

----------------------------------------------------------------------------
(* C13: set(key, data, n) with a number n as third argument stores the     *)
(* entry with a time-to-live of n ms: while the entry is not deleted or    *)
(* rewritten, get(key) returns the data up to n ms after the write and a   *)
(* miss more than n ms after it.                                           *)
C13_NumberIsTtl ==
    (/\ ret.op = "get"
     /\ written[ret.key] # NoWrite
     /\ "number" \in DOMAIN written[ret.key].options)
       => LET w == written[ret.key]
              n == w.options.number
          IN  /\ (now - w.at <= n) => (ret.hit /\ ret.value = w.data)
              /\ (now - w.at > n)  => (~ret.hit /\ ret.value = Null)

----------------------------------------------------------------------------
(* C14: after clear() tier 1 is empty and tier 2 holds no key that starts  *)
(* with storagePrefix, so every get misses until the next set; the tier-2  *)
(* keys that do not start with storagePrefix and the four counters of the  *)
(* metrics are unchanged by clear().                                       *)

\* a tier-2 key of the store
Prefixed(k) == Len(k) >= 1 /\ k[1] = "sportykoko_cache_"

\* no tier holds an entry of the store
Emptied ==
    /\ memoryCache = <<>>
    /\ \A k \in DOMAIN localStorage : ~Prefixed(k)

C14_Clear ==
    [][/\ ret'.op = "clear" =>
             /\ Emptied'
             /\ \A k \in DOMAIN localStorage :
                   ~Prefixed(k) => /\ k \in DOMAIN localStorage'
                                   /\ localStorage'[k] = localStorage[k]
             /\ metrics' = metrics
       /\ (Emptied /\ ret'.op # "set") => Emptied'
       /\ (Emptied /\ ret'.op = "get") => (~ret'.hit /\ ret'.value = Null)]_vars

\* clear() has just removed entries of both tiers, and the UI's record is
\* still in localStorage
C14_Witness ==
    /\ ret.op = "clear"
    /\ Cardinality(ret.removed) = 2
    /\ Emptied
    /\ RATE_LIMIT_INFO_KEY \in DOMAIN localStorage
    /\ metrics.sets = 1

----------------------------------------------------------------------------
(* C15: touch(k, newTtl?) at time now: when tier 1 holds a live entry for  *)
(* k, its createdAt becomes now, its ttl becomes newTtl when newTtl is     *)
(* given and is otherwise unchanged, its data is unchanged, the call       *)
(* returns true, and get(k) returns the data while the entry is live, the  *)
(* passage of time leaving the entry as it is; otherwise touch returns     *)
(* false and changes no state.                                             *)
C15_Touch ==
    [][\A k \in Keys :
          /\ (ret'.op = "touch" /\ ret'.key = k) =>
                IF Live(Tier1(k))
                THEN /\ ret'.value = TRUE
                     /\ Tier1(k)' # Absent
                     /\ Tier1(k)'.timestamp = now
                     /\ Tier1(k)'.data = Tier1(k).data
                     /\ Tier1(k)'.ttl = IF ret'.newTtl # None THEN ret'.newTtl[1]
                                        ELSE Tier1(k).ttl
                     /\ UNCHANGED <<localStorage, metrics>>
                ELSE /\ ret'.value = FALSE
                     /\ UNCHANGED <<memoryCache, localStorage, metrics>>
          /\ (GetStep(k) /\ Live(Tier1(k))) =>
                (ret'.hit /\ ret'.value = Tier1(k).data)
          /\ (now' # now) => UNCHANGED memoryCache]_vars

----------------------------------------------------------------------------
(* C16: the cache core fails soft.  When a tier-2 operation raises (a      *)
(* read, a write, a remove, the key enumeration), get, set, delete, clear  *)
(* and clearByPrefix still complete with a report, and their result and    *)
(* their effect on tier 1 are those of a store that has no tier 2: get     *)
(* answers from tier 1 alone, set stores the entry in tier 1, delete       *)
(* returns whether tier 1 held the key and removes it, clear empties       *)
(* tier 1, clearByPrefix removes the tier-1 keys of the prefix.            *)

Raised == "raised" \in DOMAIN ret

OthersKept(k) == \A j \in ClearKeys \ {k} : Tier1(j)' = Tier1(j)

C16_FailSoft ==
    [][/\ \A k \in ClearKeys :
            /\ (GetStep(k) /\ Raised') =>
                  /\ ret'.hit = Live(Tier1(k))
                  /\ ret'.value = (IF Live(Tier1(k)) THEN Tier1(k).data ELSE Null)
                  /\ memoryCache' = memoryCache
            /\ (SetStep(k) /\ ret'.tier2 \in {"error", "quota2"}) =>
                  /\ Tier1(k)' = [data |-> ret'.value, timestamp |-> now, ttl |-> 1]
                  /\ OthersKept(k)
            /\ (DeleteStep(k) /\ Raised') =>
                  /\ ret'.value = (Tier1(k) # Absent)
                  /\ Tier1(k)' = Absent
                  /\ OthersKept(k)
       /\ (ret'.op = "clear" /\ Raised') => memoryCache' = <<>>
       /\ (ret'.op = "clearByPrefix" /\ Raised') =>
             \A j \in ClearKeys :
                Tier1(j)' = IF StartsWith(j, PREDICTIONS) THEN Absent ELSE Tier1(j)
      ]_vars

\* a delete whose removeItem raised returned false for a key that tier 1
\* did not hold, the record still being in tier 2
C16_Witness ==
    /\ ret.op = "delete"
    /\ Raised
    /\ ret.raised = "removeItem"
    /\ ret.value = FALSE
    /\ Tier2(ret.key) # <<"absent">>

----------------------------------------------------------------------------
(* C17: when the tier-2 record stored for k fails to parse during get(k)   *)
(* (tier 1 gives no live entry, so the record is read), get returns a miss *)
(* and the record is removed from tier 2.                                  *)

ParseFails(k) ==
    /\ ~Live(Tier1(k))
    /\ Tier2(k) # <<"absent">>
    /\ ~CanParse(Tier2(k))

C17_CorruptRemoved ==
    [][\A k \in ClearKeys :
          (GetStep(k) /\ ParseFails(k)) =>
             /\ ret'.hit = FALSE
             /\ ret'.value = Null
             /\ Tier2(k)' = <<"absent">>
      ]_vars

----------------------------------------------------------------------------
(* C18: invalidateCache(request).  With forceRefresh true the store is in  *)
(* the state clear() leaves, whatever the other fields are: both tiers     *)
(* without an entry of the store, the other records of the Storage and the *)
(* metrics as they were.  With forceRefresh false and expiredOnly false    *)
(* the keys removed from both tiers are exactly those that start with a    *)
(* listed prefix or equal a listed key; every other key is unchanged in    *)
(* both tiers.                                                             *)

Listed(options, k) ==
    \/ \E i \in 1..Len(options.invalidateByPrefix) :
          StartsWith(k, options.invalidateByPrefix[i])
    \/ \E i \in 1..Len(options.invalidateByKeys) : options.invalidateByKeys[i] = k

OutsideKept ==
    \A k \in DOMAIN localStorage :
       ~Prefixed(k) => k \in DOMAIN localStorage' /\ localStorage'[k] = localStorage[k]

C18_InvalidateCache ==
    [][ret'.op = "invalidateCache" =>
          /\ ret'.options.forceRefresh =>
                /\ Emptied'
                /\ OutsideKept
                /\ metrics' = metrics
          /\ (~ret'.options.forceRefresh /\ ~ret'.options.invalidateExpiredOnly) =>
                /\ \A k \in NamespaceKeys :
                      IF Listed(ret'.options, k)
                      THEN Tier1(k)' = Absent /\ Tier2(k)' = <<"absent">>
                      ELSE Tier1(k)' = Tier1(k) /\ Tier2(k)' = Tier2(k)
                /\ OutsideKept
      ]_vars

\* one prefix and one key were listed; a key that is neither is still held
\* by both tiers, and the UI's record is still in the Storage
C18_Witness ==
    /\ ret.op = "invalidateCache"
    /\ ~ret.options.forceRefresh
    /\ ~ret.options.invalidateExpiredOnly
    /\ ret.options.invalidateByPrefix = <<PREDICTIONS \o <<"a">>>>
    /\ ret.options.invalidateByKeys = <<MATCHES \o <<"a">>>>
    /\ Tier1(PREDICTIONS \o <<"b">>) # Absent
    /\ Tier2(PREDICTIONS \o <<"b">>) # <<"absent">>
    /\ RATE_LIMIT_INFO_KEY \in DOMAIN localStorage

----------------------------------------------------------------------------
(* C19: after invalidateCache({expiredOnly: true}) tier 1 contains no      *)
(* expired entry (every entry with now - createdAt > ttl was removed),     *)
(* every live tier-1 entry is unchanged, and the call changes nothing when *)
(* no entry is expired.                                                    *)

ExpiredOnly == InvalidationOptions(<<>>, <<>>, TRUE, FALSE)

C19_ExpiredOnly ==
    [][(ret'.op = "invalidateCache" /\ ret'.options = ExpiredOnly) =>
          /\ \A k \in NamespaceKeys :
                /\ Tier1(k)' # Absent => Live(Tier1(k))'
                /\ Live(Tier1(k)) => Tier1(k)' = Tier1(k)
          /\ (\A k \in NamespaceKeys : Tier1(k) # Absent => Live(Tier1(k))) =>
                memoryCache' = memoryCache /\ localStorage' = localStorage
      ]_vars

----------------------------------------------------------------------------
(* C20: recoverFromError(error, context) selects its action from the error *)
(* description, the kinds being tried in the order the claim lists them:   *)
(* quota-exceeded => the whole store is cleared (both tiers); 'JSON' =>    *)
(* exactly the keys of the matches_ and predictions_ namespaces are        *)
(* removed, all other keys unchanged; 'Network' or 'fetch' => no key in    *)
(* either tier is changed; any other error => the removal of the 'JSON'    *)
(* case.  The call returns true (no cleanup of the store throws).          *)

Volatile(k) == StartsWith(k, MATCHES) \/ StartsWith(k, PREDICTIONS)

Gone(k) == Tier1(k) = Absent /\ Tier2(k) = <<"absent">>

VolatileRemoved ==
    \A k \in RecoverKeys :
       IF Volatile(k) THEN Gone(k)'
       ELSE Tier1(k)' = Tier1(k) /\ Tier2(k)' = Tier2(k)

C20_RecoverFromError ==
    [][ret'.op = "recoverFromError" =>
          /\ ret'.value = TRUE
          /\ OutsideKept
          /\ IF Includes(ret'.message, "QuotaExceededError")
             THEN \A k \in RecoverKeys : Gone(k)'
             ELSE IF Includes(ret'.message, "JSON")
             THEN VolatileRemoved
             ELSE IF Includes(ret'.message, "Network") \/ Includes(ret'.message, "fetch")
             THEN memoryCache' = memoryCache /\ localStorage' = localStorage
             ELSE VolatileRemoved
      ]_vars

\* a 'JSON' error removed the volatile keys and kept 'competitions'
C20_Witness ==
    /\ ret.op = "recoverFromError"
    /\ Includes(ret.message, "JSON")
    /\ ~Includes(ret.message, "QuotaExceededError")
    /\ Tier1(COMPETITIONS) # Absent
    /\ Tier2(COMPETITIONS) # <<"absent">>
    /\ Gone(PREDICTIONS \o <<"a">>)
    /\ Gone(MATCHES \o <<"a">>)

----------------------------------------------------------------------------
(* C21: smartRefresh() clears the whole store (as clear() does) if and     *)
(* only if the hit rate at the time of the call is below 50%, a store on   *)
(* which no get was performed counting as hit rate 0; at 50% or more it    *)
(* changes no entry in either tier.  It returns a report with the fields   *)
(* refreshed, skipped and errors.                                          *)

\* hits / (hits + misses) < 50%, and 0 when there was no read
HitRateBelowHalf ==
    \/ metrics.hits + metrics.misses = 0
    \/ 2 * metrics.hits < metrics.hits + metrics.misses

C21_SmartRefresh ==
    [][ret'.op = "smartRefresh" =>
          /\ DOMAIN ret' = {"op", "refreshed", "skipped", "errors"}
          /\ ret'.errors = <<>>
          /\ metrics' = metrics
          /\ IF HitRateBelowHalf
             THEN Emptied' /\ OutsideKept
             ELSE memoryCache' = memoryCache /\ localStorage' = localStorage
      ]_vars

----------------------------------------------------------------------------
(* C22: getMetrics().hitRate is 100 * hits / (hits + misses) rendered with *)
(* two decimals and a percent sign whenever hits + misses > 0: the string  *)
(* has the shape d..d.dd% and its number is a hundredth nearest to the     *)
(* quotient (6 hits and 4 misses give "60.00%", as many hits as misses     *)
(* give 50%); it is zero when no read has occurred.                        *)

\* the number a string d..d.dd% shows, in hundredths
Shown(str) ==
    ParseDigits(SubSeq(str, 1, Len(str) - 4), 0) * 100
       + ParseDigits(SubSeq(str, Len(str) - 2, Len(str) - 1), 0)

TwoDecimalsPercent(str) ==
    /\ Len(str) >= 5
    /\ str[Len(str)] = "%"
    /\ str[Len(str) - 3] = "."
    /\ \A i \in (1..(Len(str) - 1)) \ {Len(str) - 3} : IsDigit(str[i])

Distance(a, b) == IF a < b THEN b - a ELSE a - b

C22_HitRate ==
    [][ret'.op = "getMetrics" =>
          LET hits  == metrics.hits
              total == metrics.hits + metrics.misses
              rate  == ret'.hitRate
          IN  /\ ret'.metrics = metrics
              /\ total > 0 =>
                    /\ TwoDecimalsPercent(rate)
                    /\ 2 * Distance(Shown(rate) * total, 10000 * hits) <= total
              /\ (hits = 6 /\ total = 10) => rate = <<"6", "0", ".", "0", "0", "%">>
              /\ (total > 0 /\ 2 * hits = total) =>
                    rate = <<"5", "0", ".", "0", "0", "%">>
              /\ total = 0 => rate = <<"0", "%">>
      ]_vars

\* the metrics were read after exactly 6 hits and 4 misses
C22_Witness ==
    /\ ret.op = "getMetrics"
    /\ metrics.hits = 6
    /\ metrics.misses = 4
    /\ ret.hitRate = <<"6", "0", ".", "0", "0", "%">>

----------------------------------------------------------------------------
(* C23: under every interleaving of the data-service fetchers, an upstream *)
(* request is issued only by the step whose checkRateLimit() returned      *)
(* isRateLimited = false, and that same step records it once (check and    *)
(* record are one turn of the event loop, no fetcher runs in between); so  *)
(* at no time are more than MAX_REQUESTS_PER_WINDOW = 10 requests recorded *)
(* with timestamps inside a 60 s window.                                   *)

Recorded(rc) == SumCounts(rc, DOMAIN rc)

\* the requests recorded in the window of 60 s that starts at a
RecordedFrom(a) ==
    SumCounts(requestCache,
              {x \in DOMAIN requestCache : a <= x /\ x <= a + RATE_LIMIT_WINDOW})

C23_CheckThenRecord ==
    [][/\ inflight' > inflight =>
             /\ ret'.op = "checkRateLimit"
             /\ ~ret'.value.isRateLimited
             /\ inflight' = inflight + 1
             /\ Recorded(requestCache') = Recorded(Cleaned(requestCache, now)) + 1
             /\ now \in DOMAIN requestCache'
       /\ (ret'.op = "checkRateLimit" /\ ret'.value.isRateLimited) =>
             /\ inflight' = inflight
             /\ requestCache' = Cleaned(requestCache, now)
       /\ Recorded(requestCache') > Recorded(requestCache) => inflight' > inflight
       /\ \A a \in Instants : RecordedFrom(a)' <= MAX_REQUESTS_PER_WINDOW
      ]_vars

\* the tenth request of a window was issued while another fetcher was
\* still waiting for its response
C23_Witness ==
    /\ ret.op = "checkRateLimit"
    /\ ~ret.value.isRateLimited
    /\ inflight = 2
    /\ \E a \in Instants : RecordedFrom(a) = MAX_REQUESTS_PER_WINDOW

----------------------------------------------------------------------------
(* C24: a server throttling signal overrides the local estimate while it   *)
(* is valid: when the limiter state is limited with a reset time R (as     *)
(* handleRateLimitResponse leaves it after a 429), every checkRateLimit()  *)
(* at a time before R returns isRateLimited = true, whatever the number of *)
(* locally recorded requests, and the fetcher issues no upstream request.  *)

\* the millisecond instant of an ISO string
InstantOf(iso) == iso[2]

ThrottledUntilLater ==
    /\ rateLimitInfo.isRateLimited
    /\ rateLimitInfo.resetTime # None
    /\ now < InstantOf(rateLimitInfo.resetTime[1])

C24_ServerOverrides ==
    [][(ThrottledUntilLater /\ ret'.op = "checkRateLimit") =>
          /\ ret'.value.isRateLimited
          /\ inflight' = inflight
          /\ requestCache' = Cleaned(requestCache, now)
      ]_vars

----------------------------------------------------------------------------
(* C25: get never resurrects an overwritten value: once set(k, v2) has     *)
(* completed, no later get(k) returns a value v1 written by an earlier     *)
(* set(k), also when the tier-2 write of v2 failed and the tier-1 copy of  *)
(* v2 later expired while an older tier-2 record of k is still live.       *)
(* `written` keeps the last set of k made with the default options and not *)
(* removed since; a get that hits returns the value of that set.           *)
C25_NoResurrection ==
    (ret.op = "get" /\ ret.hit /\ written[ret.key] # NoWrite) =>
        ret.value = written[ret.key].data

----------------------------------------------------------------------------
(* C26: there is no single-flight de-duplication.  A getOrSet(k) returns   *)
(* without fetching only the live value the store holds, never because     *)
(* another call's fetcher for k is running; each call whose fetcher        *)
(* resolves writes its result and returns the value its own fetcher        *)
(* produced, leaving the other call's fetcher running; tier 1 then holds   *)
(* the value of the set that executed last.                                *)

C26_NoSingleFlight ==
    [][\A c \in FlightCallers :
          /\ (/\ calls[c].pc = "idle"
              /\ calls'[c] # calls[c]) =>
                /\ calls'[c].pc = "fetcher"
                /\ ret'.op = "fetcher"
          /\ (ret'.op = "getOrSet" /\ ret'.fetches = 0) =>
                /\ LiveData(COMPETITIONS) # None
                /\ ret'.value = LiveData(COMPETITIONS)[1]
          /\ (/\ calls[c].pc = "fetcher"
              /\ calls'[c].pc = "idle"
              /\ ret'.op = "getOrSet"
              /\ ret'.value # "rejected") =>
                /\ ret'.fetches = 1
                /\ metrics'.sets = metrics.sets + 1
                /\ Tier1(COMPETITIONS)' # Absent
                /\ Tier1(COMPETITIONS)'.data = ret'.value
                /\ \A d \in FlightCallers \ {c} : calls'[d] = calls[d]
      ]_vars

\* both calls missed before either stored; the first wrote v1, the second
\* then wrote v2, which tier 1 holds
C26_Witness ==
    /\ ret.op = "getOrSet"
    /\ ret.value = "v2"
    /\ ret.fetches = 1
    /\ \A c \in FlightCallers : calls[c].pc = "idle"
    /\ metrics.misses = 2
    /\ metrics.hits = 0
    /\ metrics.sets = 2
    /\ now = 0
    /\ Tier1(COMPETITIONS).data = "v2"
    /\ Tier2(COMPETITIONS)[3] = "v1"

----------------------------------------------------------------------------
(* C27: metrics accounting.  Every get, direct or inside getOrSet, adds    *)
(* one to exactly one of hits and misses; every set, direct or inside      *)
(* getOrSet, adds one to sets; evictions grows only in a set whose insert  *)
(* took tier 1 over its capacity, by the number of entries evicted;        *)
(* delete, clear, clearByPrefix and touch change no counter; a counter     *)
(* decreases only in resetMetrics, which sets all four to 0 and changes no *)
(* cache entry.                                                            *)

\* the step is a get: get(k), or the get getOrSet begins with
IsGet == ret'.op \in {"get", "fetcher"} \/ (ret'.op = "getOrSet" /\ ret'.fetches = 0)

\* the step is a set: set(k, v), or the set after a resolved fetcher
IsSet ==
    \/ ret'.op = "set"
    \/ ret'.op = "getOrSet" /\ ret'.fetches = 1 /\ ret'.value # "rejected"

C27_Metrics ==
    [][/\ IsGet =>
             /\ \/ metrics' = [metrics EXCEPT !.hits = @ + 1]
                \/ metrics' = [metrics EXCEPT !.misses = @ + 1]
       /\ (ret'.op = "get") => (metrics'.hits = metrics.hits + 1) = ret'.hit
       /\ IsSet =>
             /\ metrics'.sets = metrics.sets + 1
             /\ metrics'.hits = metrics.hits
             /\ metrics'.misses = metrics.misses
             /\ metrics'.evictions - metrics.evictions =
                   Cardinality(MapKeys(memoryCache) \cup {storagePrefix \o ret'.key})
                      - Len(memoryCache')
       /\ metrics'.evictions > metrics.evictions =>
             /\ IsSet
             /\ Cardinality(MapKeys(memoryCache) \cup {storagePrefix \o ret'.key})
                   > maxMemoryEntries
       /\ ret'.op \in {"delete", "clear", "clearByPrefix", "touch"} =>
             metrics' = metrics
       /\ (\/ metrics'.hits < metrics.hits
           \/ metrics'.misses < metrics.misses
           \/ metrics'.sets < metrics.sets
           \/ metrics'.evictions < metrics.evictions) => ret'.op = "resetMetrics"
       /\ ret'.op = "resetMetrics" =>
             /\ metrics' = [hits |-> 0, misses |-> 0, sets |-> 0, evictions |-> 0]
             /\ memoryCache' = memoryCache
             /\ localStorage' = localStorage
      ]_vars

\* the sixth key was set on the store of capacity 5 and one entry evicted
C27_Witness ==
    /\ ret.op = "set"
    /\ Cardinality(ret.evicted) = 1
    /\ metrics.evictions = 1
    /\ metrics.sets = 1
    /\ Len(memoryCache) = 5

----------------------------------------------------------------------------
(* C28: a data-service fetcher writes its cache key only after a           *)
(* successful upstream response.  When the call is refused because         *)
(* checkRateLimit() reports limited, when the upstream answers 429 or any  *)
(* non-OK status, or when the fetch throws, nothing is written to the      *)
(* cache for the key; so the empty result is never served from the cache   *)
(* and the next call goes to the limiter and upstream again.               *)

FetcherReturned == ret'.op = "fetchCompetitions"

KeyUntouched ==
    /\ Tier1(COMPETITIONS)' = Tier1(COMPETITIONS)
    /\ Tier2(COMPETITIONS)' = Tier2(COMPETITIONS)
    /\ metrics'.sets = metrics.sets

C28_WriteAfterSuccess ==
    [][/\ (FetcherReturned /\ ret'.from \in {"refused", "thrown"}) => KeyUntouched
       /\ (/\ FetcherReturned
           /\ ret'.from = "upstream"
           /\ ret'.status = 429 \/ ret'.status < 200 \/ ret'.status > 299) =>
             KeyUntouched
       /\ ret'.op \in {"checkCache", "fetch", "fetchCompetitions"} =>
             (metrics'.sets > metrics.sets =>
                 /\ ret'.from = "upstream"
                 /\ ret'.status \in 200..299
                 /\ ret'.value # "empty"
                 /\ Tier1(COMPETITIONS)'.data = ret'.value)
       /\ (FetcherReturned /\ ret'.from = "cache") =>
             /\ ret'.value # "empty"
             /\ Tier1(COMPETITIONS) # Absent \/ Tier2(COMPETITIONS) # <<"absent">>
      ]_vars

\* the upstream answered 500 and the store holds nothing for the key
C28_Witness ==
    /\ ret.op = "fetchCompetitions"
    /\ ret.from = "upstream"
    /\ ret.status = 500
    /\ ret.value = "empty"
    /\ Tier1(COMPETITIONS) = Absent
    /\ Tier2(COMPETITIONS) = <<"absent">>
    /\ Recorded(requestCache) >= 1

----------------------------------------------------------------------------
(* C29: the space-reclaim pass of a set whose tier-2 write met the quota.  *)

\* the keys a storage holds under the store's prefix
PrefixedIn(st) == {k \in DOMAIN st : Prefixed(k)}

\* the prefixed records of tier 2 that are unparsable or expired now
ExpiredRecords ==
    {k \in PrefixedIn(localStorage) :
        \/ ~CanParse(localStorage[k])
        \/ now - localStorage[k][5] > localStorage[k][7]}

\* a set of this step ran the reclaim pass
Reclaiming == ret'.op = "set" /\ ret'.reclaims = 1

\* the keys of tier 2 that the step removed
Reclaimed == DOMAIN localStorage \ DOMAIN localStorage'

\* C29: a reclaim pass removes exactly the expired and unparsable prefixed
\* records when there is one, and otherwise exactly floor(n / 10) of the n
\* prefixed records, none of them newer than a prefixed record it keeps;
\* every record that stays is unaltered, every key without the prefix
\* stays, the only record added is the one the set writes, and tier 1 and
\* the metrics are the ones of a set that ran no reclaim pass.
C29_ReclaimPass ==
    [][Reclaiming =>
          LET fullKey == <<"sportykoko_cache_">> \o ret'.key
              n       == Cardinality(PrefixedIn(localStorage))
          IN  /\ \A k \in DOMAIN localStorage :
                    ~Prefixed(k) =>
                        k \in DOMAIN localStorage' /\ localStorage'[k] = localStorage[k]
              /\ \A k \in DOMAIN localStorage \cap DOMAIN localStorage' :
                    localStorage'[k] = localStorage[k]
              /\ DOMAIN localStorage' \ DOMAIN localStorage \subseteq {fullKey}
              /\ fullKey \in DOMAIN localStorage' <=> ret'.tier2 = "quota"
              /\ ExpiredRecords # {} => Reclaimed = ExpiredRecords
              /\ ExpiredRecords = {} =>
                    /\ Reclaimed \subseteq PrefixedIn(localStorage)
                    /\ 10 * Cardinality(Reclaimed) <= n
                    /\ 10 * (Cardinality(Reclaimed) + 1) > n
                    /\ \A a \in Reclaimed, b \in PrefixedIn(localStorage) \ Reclaimed :
                          localStorage[a][5] <= localStorage[b][5]
              /\ Len(memoryCache') = Len(memoryCache) + 1
              /\ \A i \in 1..Len(memoryCache) : memoryCache'[i] = memoryCache[i]
              /\ memoryCache'[Len(memoryCache')].key = fullKey
              /\ metrics' = [metrics EXCEPT !.sets = @ + 1]
      ]_vars

\* C29 witness: a set has just run the reclaim pass, perf-test-3 (written
\* with the default time-to-live and never corrupted) is gone from tier 2
\* and still in tier 1, nine or more prefixed records and the
\* RateLimitProvider's record are left
C29_Witness ==
    /\ ret.op = "set" /\ ret.reclaims = 1
    /\ Tier2(EvictKey(3)) = <<"absent">>
    /\ Tier1(EvictKey(3)) # Absent
    /\ Cardinality(PrefixedIn(localStorage)) >= 9
    /\ <<"rateLimitInfo">> \in DOMAIN localStorage

----------------------------------------------------------------------------
(* C30: whenever checkRateLimit or handleRateLimitResponse leaves the      *)
(* limiter state with isRateLimited = true, remainingRequests is 0,        *)
(* resetTime is strictly later than the time of the call and               *)
(* cooldownMinutes is at least 1.                                          *)

\* this step computed the limiter state
Computes ==
    \/ ret'.op = "checkRateLimit"
    \/ ret'.op = "handleRateLimitResponse" /\ ret'.status = 429 /\ ~ret'.threw

C30_LimitedShape ==
    [][(Computes /\ rateLimitInfo'.isRateLimited) =>
          /\ rateLimitInfo'.remainingRequests = <<0>>
          /\ rateLimitInfo'.resetTime # <<>>
          /\ rateLimitInfo'.resetTime[1][2] > now
          /\ rateLimitInfo'.cooldownMinutes # <<>>
          /\ rateLimitInfo'.cooldownMinutes[1] >= 1
      ]_vars

============================================================================
